---- MODULE Spec2Model ----
(***************************************************************************)
(* Model of the field-sim simulation/render engine (src/src/gfx.cpp) and   *)
(* of the frame loop that drives it (src/src/main.cpp).                    *)
(*                                                                         *)
(* Five specifications share the variables:                                *)
(*   Spec     - one Field_viz object whose public operations               *)
(*              (advance_simulation, draw, ensure_least_framebuffer_size)  *)
(*              are called in any order with any argument;                 *)
(*   SpecMain - the whole program: gfx::init, the frame loop of main()     *)
(*              with its event polling, and gfx::deinit, on a device that  *)
(*              raises no error;                                           *)
(*   SpecDevice - the whole program with one configuration and few events, *)
(*              on a device whose commands may raise errors;               *)
(*   SpecArgs - get_config reading a command line;                         *)
(*   SpecGuard - a Deferred_init object called in any order.               *)
(*                                                                         *)
(* Every handler is written as a function from "world" records to world    *)
(* records, so that a handler which calls another one (handle_sdl_event -> *)
(* update_resolution -> ensure_least_framebuffer_size) is still one        *)
(* action.  A world is                                                     *)
(*   [viz, gl, ctx, cmds, last, status, raise]                             *)
(* where cmds is the sequence of device commands and mapped-memory writes  *)
(* issued by the handler that ran last (a constructor puts its own call    *)
(* and configuration first), and last describes the most recent engine     *)
(* call.                                                                   *)
(***************************************************************************)
EXTENDS Integers, Sequences, FiniteSets, TLC

VARIABLES
    pc,        \* position of the control thread
    ndebug,    \* the build: TRUE when assert() is compiled out
    viz,       \* the Field_viz object (global_fieldviz)
    gl,        \* device-side bookkeeping: object names generated and deleted,
               \* and whether the actor buffer's mapping exists
    ctx,       \* the Context object (global_render_context)
    input,     \* Input_state of main()
    event,     \* SDL_Event of poll_events: the event SDL_PollEvent returned last
    cmds,      \* commands issued by the handler that ran last
    last,      \* the most recent engine call: operation, arguments, outcome
    frame,     \* calls made by the current iteration of the frame loop
    advances,  \* number of advance_simulation calls made so far
    args,      \* get_config: the command line, the loop index and cfg
    guard      \* a Deferred_init<T> object: its flag and the instances of T

vars == <<pc, ndebug, viz, gl, ctx, input, event, cmds, last, frame, advances, args,
         guard>>

---------------------------------------------------------------------------
(* Bounds of the model *)

MaxTick == 2      \* advance_simulation is called at most this many times
MaxErrors == 2    \* the device stops raising errors once it has raised this many
MaxInits == 5     \* Deferred_init::init is called at most this many times

---------------------------------------------------------------------------
(* Program constants *)

\* unsigned is 32 bits wide.  The sizes, ticks and counts of the model stay
\* far below 2^31 (sizes are at most a few thousand, the tick at most
\* MaxTick), so additions and comparisons are written without the reduction
\* modulo 2^32.  The one product that can wrap for a grid the command line
\* accepts, grid_size.x * grid_size.y, goes through mul_u32 below.
max_size_x == 3840
max_size_y == 2160
workgroup_size_x == 32
workgroup_size_y == 32
max_vortices == 16
max_pushers == 16
sizeof_Vortex == 16
sizeof_Pusher == 16
default_spacing == 2
default_particle_lifetime == 200
unif_loc_tick == 0
unif_loc_particle_lifetime == 1
unif_loc_num_vortices == 10
unif_loc_num_pushers == 11
unif_loc_workgroup_size == 0
unif_loc_workgroup_num == 2
unif_loc_scale == 4

max_size == [x |-> max_size_x, y |-> max_size_y]
workgroup_size == [x |-> workgroup_size_x, y |-> workgroup_size_y]

offsetof_vortices == 0
offsetof_pushers == max_vortices * sizeof_Vortex
sizeof_GPU_actors == max_vortices * sizeof_Vortex + max_pushers * sizeof_Pusher

---------------------------------------------------------------------------
(* Helpers *)

Resolution(x, y) == [x |-> x, y |-> y]

Cmd(op, a, b, c) == [op |-> op, a |-> a, b |-> b, c |-> c]

Min(a, b) == IF a < b THEN a ELSE b
Max(a, b) == IF a > b THEN a ELSE b

RECURSIVE Pow2(_)
Pow2(k) == IF k = 0 THEN 1 ELSE 2 * Pow2(k - 1)

\* std::bit_width: number of bits needed to represent n (0 for 0)
RECURSIVE bit_width(_)
bit_width(n) == IF n = 0 THEN 0 ELSE 1 + bit_width(n \div 2)

\* Variant: the upper bound is not applied
clamp_no_upper(x, minVal, maxVal) == Max(x, minVal)

\* glm::clamp(x, minVal, maxVal) is min(max(x, minVal), maxVal)
clamp(x, minVal, maxVal) == Min(Max(x, minVal), maxVal)

\* Variant: the smallest power of two at or above r (std::bit_ceil), which
\* leaves an exact power of two as it is
next_po2_ceil(r) == IF r <= 1 THEN 1 ELSE Pow2(bit_width(r - 1))

\* Variant: the power of two at or below r (one bit too few)
next_po2_floor(r) == IF r = 0 THEN 0 ELSE Pow2(bit_width(r) - 1)

\* 1u << std::bit_width(r)
next_po2(r) == Pow2(bit_width(r))

---------------------------------------------------------------------------
(* Unique_handle and the device's object names *)

\* Unique_handle::get: assert(id != null_handle); return id.
\* With assertions compiled in, a null handle aborts the process.
get_aborts(id) == id = 0 /\ ~ndebug

\* Variant: release forgets the name without running the deleter
release_leak(deleted, id) == deleted

\* Unique_handle::release, as far as the device sees it: the deleter runs
\* for a non-null id only.  deleted is the sequence of names deleted so far.
release(deleted, id) == IF id # 0 THEN Append(deleted, id) ELSE deleted

---------------------------------------------------------------------------
(* Device errors (src/src/gl.cpp) *)

\* The device records an error when a command fails; gl.errors is the number
\* of errors recorded and not yet fetched by glGetError.  Which commands fail
\* is the device's choice: w.raise lists, for each batch of commands the
\* handler issues, how many errors the batch raises (none once the list is
\* used up).  gl.raised and gl.reported count the errors raised and the
\* errors a poll has reported since the program started.
raised_now(w) == IF w.raise = << >> THEN 0 ELSE Head(w.raise)

issue(w, commands) ==
    [w EXCEPT !.cmds = @ \o commands,
              !.gl.errors = @ + raised_now(w),
              !.gl.raised = @ + raised_now(w),
              !.raise = IF @ = << >> THEN @ ELSE Tail(@)]

\* for (GLenum error; (error = glGetError()) != GL_NO_ERROR; num_errors++)
\* Each glGetError takes one recorded error away.
RECURSIVE poll_errors_loop(_, _)
poll_errors_loop(pending, num_errors) ==
    IF pending = 0
    THEN [pending |-> pending, num_errors |-> num_errors]
    ELSE poll_errors_loop(pending - 1, num_errors + 1)

\* Variant: glGetError is called once, not until it returns GL_NO_ERROR
poll_errors_warn_on_each_once(w) ==
    LET n == IF w.gl.errors = 0 THEN 0 ELSE 1
    IN [w |-> [w EXCEPT !.gl.errors = @ - n, !.gl.reported = @ + n],
        num_errors |-> n]

\* poll_errors_warn_on_each: the world after the loop and the number of
\* errors it warned about
poll_errors_warn_on_each(w) ==
    LET r == poll_errors_loop(w.gl.errors, 0)
    IN [w |-> [w EXCEPT !.gl.errors = r.pending, !.gl.reported = @ + r.num_errors],
        num_errors |-> r.num_errors]

\* poll_errors_and_warn: one more warning when there was an error.  The
\* entry in the commands records the poll, its tag and what it counted.
poll_errors_and_warn(w, tag) ==
    LET r == poll_errors_warn_on_each(w) IN
    IF w.status # "running" THEN w
    ELSE [r.w EXCEPT !.cmds = @ \o << Cmd("poll_errors_and_warn", tag, r.num_errors, 0) >>]

\* poll_errors_and_die: FATAL when there was an error
poll_errors_and_die(w, tag) ==
    LET r == poll_errors_warn_on_each(w) IN
    IF w.status # "running" THEN w
    ELSE [r.w EXCEPT !.cmds = @ \o << Cmd("poll_errors_and_die", tag, r.num_errors, 0) >>,
                     !.status = IF r.num_errors > 0 THEN "fatal" ELSE "running"]

---------------------------------------------------------------------------
(* Field_viz *)

\* unsigned * unsigned: the product modulo 2^32, for a and b below 2^31,
\* computed on 16-bit halves so that no intermediate value leaves the range
\* of TLC's integers.  The result is the pair of its 16-bit halves.
mul_u32(a, b) ==
    LET ah == a \div 65536
        al == a % 65536
        bh == b \div 65536
        bl == b % 65536
        t1 == al * (bl \div 256)            \* al * bl = t1 * 256 + t2
        t2 == al * (bl % 256)
        s  == ((t1 % 256) * 256) + t2
        p_lo == s % 65536
        p_hi == (t1 \div 256) + (s \div 65536)
        cross == (((ah * bl) % 65536) + ((al * bh) % 65536)) % 65536
    IN [hi |-> (p_hi + cross) % 65536, lo |-> p_lo]

\* unsigned get_total_particles() const { return grid_size.x * grid_size.y; }
\* The grids of the model have a wrapped product below 2^31.
get_total_particles(grid_size) ==
    LET p == mul_u32(grid_size.x, grid_size.y)
    IN p.hi * 65536 + p.lo

get_dispatch_size(grid_size) ==
    Resolution(grid_size.x \div workgroup_size.x, grid_size.y \div workgroup_size.y)

\* The record describing an engine call, kept in last: the operation, its
\* arguments, the surface and the device's names as they were before the
\* call, how the call ended, and whether it repeats the call before it
\* (same operation, same arguments, and that call returned).
Call(op, arg, clear, w, outcome) ==
    [op |-> op, arg |-> arg, clear |-> clear,
     prev_size |-> w.viz.accum_fbo_size, prev_fbo |-> w.viz.accum_fbo,
     prev_rbo |-> w.viz.accum_rbo, prev_gl |-> w.gl,
     repeat |-> /\ w.last.op = op
                /\ w.last.arg = arg
                /\ w.last.clear = clear
                /\ w.last.outcome \in {"returned", "covered", "grown"},
     outcome |-> outcome]

\* Variant: a surface exactly as large as the request is not taken to cover it
already_covers_strict(size, required_size) ==
    size.x > required_size.x /\ size.y > required_size.y

\* if (accum_fbo_size.x >= required_size.x && accum_fbo_size.y >= required_size.y) return;
already_covers(size, required_size) ==
    size.x >= required_size.x /\ size.y >= required_size.y

\* Variant: only the width is checked against the ceiling
too_large_x_only(required_size) ==
    required_size.x > max_size.x

\* if (required_size.x > max_size.x || required_size.y > max_size.y) FATAL(...)
too_large(required_size) ==
    required_size.x > max_size.x \/ required_size.y > max_size.y

\* Variant: the current size of the axis is ignored
new_axis_size_forgetful(cur, required, maxv) ==
    IF cur = 0
    THEN required
    ELSE Min(Pow2(bit_width(required)), maxv)

\* Variant: every request is taken exactly, no rounding to a power of two
new_axis_size_exact(cur, required, maxv) ==
    Min(Max(cur, required), maxv)

\* Variant: the first request is rounded like every later one
new_axis_size_always_po2(cur, required, maxv) ==
    Min(Max(cur, Pow2(bit_width(required))), maxv)

\* Variant: an axis that already covers the request keeps its size
new_axis_size_keep_covered(cur, required, maxv) ==
    IF cur = 0
    THEN required
    ELSE IF cur >= required THEN cur
    ELSE clamp(cur, next_po2(required), maxv)

\* Body of the per-axis loop: the new size of one axis.
new_axis_size(cur, required, maxv) ==
    IF cur = 0
    THEN required
    ELSE clamp(cur, next_po2(required), maxv)

\* glCheckFramebufferStatus: an attachment of zero width or height is never
\* complete; otherwise the verdict is the driver's (driver_ok).
framebuffer_complete(size, driver_ok) ==
    driver_ok /\ size.x > 0 /\ size.y > 0

ensure_least_framebuffer_size(w, required_size, driver_ok) ==
    LET v == w.viz
        call(outcome) == Call("ensure", required_size, FALSE, w, outcome)
    IN
    IF w.status # "running" THEN w
    ELSE IF already_covers(v.accum_fbo_size, required_size)
    THEN [w EXCEPT !.last = call("covered")]
    ELSE IF too_large(required_size)
    THEN [w EXCEPT !.last = call("too_large"), !.status = "fatal"]
    ELSE
      LET new_size == Resolution(
                new_axis_size(v.accum_fbo_size.x, required_size.x, max_size.x),
                new_axis_size(v.accum_fbo_size.y, required_size.y, max_size.y))
          fbo == w.gl.fbo_gen + 1
          rbo == w.gl.rbo_gen + 1
          ok  == framebuffer_complete(new_size, driver_ok)
          issued ==
              << Cmd("gen_framebuffer", fbo, 0, 0) >>
              \o (IF v.accum_fbo # 0
                  THEN << Cmd("delete_framebuffer", v.accum_fbo, 0, 0) >>
                  ELSE << >>)
              \o << Cmd("bind_framebuffer", fbo, 0, 0),
                    Cmd("gen_renderbuffer", rbo, 0, 0) >>
              \o (IF v.accum_rbo # 0
                  THEN << Cmd("delete_renderbuffer", v.accum_rbo, 0, 0) >>
                  ELSE << >>)
              \o << Cmd("bind_renderbuffer", rbo, 0, 0),
                    Cmd("renderbuffer_storage", rbo, new_size.x, new_size.y),
                    Cmd("framebuffer_renderbuffer", fbo, rbo, 0),
                    Cmd("check_framebuffer_status", fbo, 0, 0) >>
      IN [issue(w, issued) EXCEPT
            !.viz.accum_fbo_size = new_size,
            !.viz.accum_fbo = fbo,
            !.viz.accum_rbo = rbo,
            !.gl.fbo_gen = fbo,
            !.gl.rbo_gen = rbo,
            !.gl.fbo_deleted = release(@, v.accum_fbo),
            !.gl.rbo_deleted = release(@, v.accum_rbo),
            !.last = call(IF ok THEN "grown" ELSE "incomplete"),
            !.status = IF ok THEN "running" ELSE "fatal"]

\* Variant: the count of the previous tick is carried over
tick_start_count_kept(previous) == previous

\* num_vortices = 0; num_pushers = 0; -- the count a tick starts from,
\* whatever the previous tick left
tick_start_count(previous) == 0

\* The writes of one tick into the mapping: add_vortex three times, then
\* add_pusher twice.  Each write goes to the entry the running count names
\* (m.vortices[num_vortices++]) and the count goes up by one; nv0 and np0 are
\* the counts before the first write.  a is the entry, b its byte offset in
\* the block.
vortex_calls == 3
pusher_calls == 2

mapped_writes(nv0, np0) ==
    [i \in 1..vortex_calls |->
        Cmd("write_vortex", nv0 + i - 1,
            offsetof_vortices + sizeof_Vortex * (nv0 + i - 1), 0)]
    \o
    [i \in 1..pusher_calls |->
        Cmd("write_pusher", np0 + i - 1,
            offsetof_pushers + sizeof_Pusher * (np0 + i - 1), 0)]

\* Variant: the flushes are issued after the dispatch
advance_commands_late_flush(v, nv, np) ==
       << Cmd("use_program", v.update_particles_program, 0, 0),
          Cmd("uniform1ui", unif_loc_tick, v.current_tick, 0),
          Cmd("uniform1ui", unif_loc_particle_lifetime, v.particle_lifetime, 0),
          Cmd("uniform1ui", unif_loc_num_vortices, nv, 0),
          Cmd("uniform1ui", unif_loc_num_pushers, np, 0),
          Cmd("dispatch", v.grid_size.x \div workgroup_size.x,
                          v.grid_size.y \div workgroup_size.y, 1),
          Cmd("flush", offsetof_vortices, sizeof_Vortex * nv, 0),
          Cmd("flush", offsetof_pushers, sizeof_Pusher * np, 0) >>

\* Variant: the flushes are issued before the program is bound and the
\* uniforms are uploaded
advance_commands_flush_first(v, nv, np) ==
       << Cmd("flush", offsetof_vortices, sizeof_Vortex * nv, 0),
          Cmd("flush", offsetof_pushers, sizeof_Pusher * np, 0),
          Cmd("use_program", v.update_particles_program, 0, 0),
          Cmd("uniform1ui", unif_loc_tick, v.current_tick, 0),
          Cmd("uniform1ui", unif_loc_particle_lifetime, v.particle_lifetime, 0),
          Cmd("uniform1ui", unif_loc_num_vortices, nv, 0),
          Cmd("uniform1ui", unif_loc_num_pushers, np, 0),
          Cmd("dispatch", get_dispatch_size(v.grid_size).x,
                          get_dispatch_size(v.grid_size).y, 1) >>

\* Variant: the whole vortex and pusher arrays are flushed
advance_commands_flush_arrays(v, nv, np) ==
       << Cmd("use_program", v.update_particles_program, 0, 0),
          Cmd("uniform1ui", unif_loc_tick, v.current_tick, 0),
          Cmd("uniform1ui", unif_loc_particle_lifetime, v.particle_lifetime, 0),
          Cmd("uniform1ui", unif_loc_num_vortices, nv, 0),
          Cmd("uniform1ui", unif_loc_num_pushers, np, 0),
          Cmd("flush", offsetof_vortices, sizeof_Vortex * max_vortices, 0),
          Cmd("flush", offsetof_pushers, sizeof_Pusher * max_pushers, 0),
          Cmd("dispatch", get_dispatch_size(v.grid_size).x,
                          get_dispatch_size(v.grid_size).y, 1) >>

\* The device commands of advance_simulation after the writes into the
\* mapping, in the order the code issues them.
advance_commands(v, nv, np) ==
       << Cmd("use_program", v.update_particles_program, 0, 0),
          Cmd("uniform1ui", unif_loc_tick, v.current_tick, 0),
          Cmd("uniform1ui", unif_loc_particle_lifetime, v.particle_lifetime, 0),
          Cmd("uniform1ui", unif_loc_num_vortices, nv, 0),
          Cmd("uniform1ui", unif_loc_num_pushers, np, 0),
          Cmd("flush", offsetof_vortices, sizeof_Vortex * nv, 0),
          Cmd("flush", offsetof_pushers, sizeof_Pusher * np, 0),
          Cmd("dispatch", get_dispatch_size(v.grid_size).x,
                          get_dispatch_size(v.grid_size).y, 1) >>

\* Variant: the increment is missing
next_tick_stuck(t) == t

\* current_tick++
next_tick(t) == t + 1

advance_simulation(w) ==
    LET v  == w.viz
        nv0 == tick_start_count(v.num_vortices)
        np0 == tick_start_count(v.num_pushers)
        nv == nv0 + vortex_calls     \* ++ per add_vortex
        np == np0 + pusher_calls     \* ++ per add_pusher
    IN
    IF w.status # "running" THEN w
    ELSE [issue(w, mapped_writes(nv0, np0) \o advance_commands(v, nv, np)) EXCEPT
            !.viz.num_vortices = nv,
            !.viz.num_pushers = np,
            !.viz.current_tick = next_tick(v.current_tick),
            !.last = Call("advance", Resolution(0, 0), FALSE, w, "returned")]

\* Variant: the target is cleared whatever should_clear says
clear_commands_always(should_clear) ==
    << Cmd("clear_color", 0, 1, 0), Cmd("clear", 0, 0, 0) >>

\* if (should_clear) { glClearColor(0, 0, 0, 1); glClear(GL_COLOR_BUFFER_BIT); }
\* For clear_color, a is the colour (red = green = blue = 0) and b is alpha.
clear_commands(should_clear) ==
    IF should_clear
    THEN << Cmd("clear_color", 0, 1, 0), Cmd("clear", 0, 0, 0) >>
    ELSE << >>

\* float values of draw are fractions [num, den]; den = 0 stands for
\* +infinity when num > 0 and for NaN when num = 0.  The numerators and
\* denominators of the model are integers below 2^24, which float
\* represents exactly, and the correctly rounded quotient of two different
\* such integers is never 1.0f, so the comparisons with 1.0f below are the
\* ones the code makes.
One == [num |-> 1, den |-> 1]

\* float aspect = (float) grid_size.x * res.y / (grid_size.y * res.x);
\* The numerator is a float product.  The denominator is the product of two
\* unsigned, taken modulo 2^32 before it is converted to float.
aspect(grid_size, res) ==
    LET den == mul_u32(grid_size.y, res.x)
    IN [num |-> grid_size.x * res.y, den |-> den.hi * 65536 + den.lo]

\* 1.0f / f
reciprocal(f) == [num |-> f.den, den |-> f.num]

\* std::max(1.0f, f): (1.0f < f) ? f : 1.0f; the comparison is false for NaN
max_with_one(f) == IF f.num > f.den THEN f ELSE One

\* glUniform2f(unif_loc_scale, std::max(1.0f, aspect), std::max(1.0f, 1.0f/aspect));
scale(grid_size, res) ==
    [x |-> max_with_one(aspect(grid_size, res)),
     y |-> max_with_one(reciprocal(aspect(grid_size, res)))]

\* Variant: the accumulation target is blitted before the lines are drawn
draw_commands_blit_first(v, res, should_clear) ==
    << Cmd("bind_framebuffer", v.accum_fbo, 0, 0),
       Cmd("viewport", res.x, res.y, 0) >>
    \o clear_commands(should_clear)
    \o << Cmd("bind_read_framebuffer", v.accum_fbo, 0, 0),
          Cmd("bind_draw_framebuffer", 0, 0, 0),
          Cmd("blit_framebuffer", res.x, res.y, 0),
          Cmd("use_program", v.draw_particles_program, 0, 0),
          Cmd("uniform2ui", unif_loc_workgroup_size, workgroup_size.x, workgroup_size.y),
          Cmd("uniform2ui", unif_loc_workgroup_num,
                            get_dispatch_size(v.grid_size).x,
                            get_dispatch_size(v.grid_size).y),
          Cmd("uniform2f", unif_loc_scale, scale(v.grid_size, res).x,
                                           scale(v.grid_size, res).y),
          Cmd("bind_vertex_array", v.lines_vao, 0, 0),
          Cmd("draw_arrays", 0, 2 * get_total_particles(v.grid_size), 0) >>

\* The commands of draw, in the order the code issues them.
draw_commands(v, res, should_clear) ==
    << Cmd("bind_framebuffer", v.accum_fbo, 0, 0),
       Cmd("viewport", res.x, res.y, 0) >>
    \o clear_commands(should_clear)
    \o << Cmd("use_program", v.draw_particles_program, 0, 0),
          Cmd("uniform2ui", unif_loc_workgroup_size, workgroup_size.x, workgroup_size.y),
          Cmd("uniform2ui", unif_loc_workgroup_num,
                            get_dispatch_size(v.grid_size).x,
                            get_dispatch_size(v.grid_size).y),
          Cmd("uniform2f", unif_loc_scale, scale(v.grid_size, res).x,
                                           scale(v.grid_size, res).y),
          Cmd("bind_vertex_array", v.lines_vao, 0, 0),
          Cmd("draw_arrays", 0, 2 * get_total_particles(v.grid_size), 0),
          Cmd("bind_read_framebuffer", v.accum_fbo, 0, 0),
          Cmd("bind_draw_framebuffer", 0, 0, 0),
          Cmd("blit_framebuffer", res.x, res.y, 0) >>

\* Variant: draw moves the tick on
draw_ticking(w, res, should_clear) ==
    LET v == w.viz IN
    IF w.status # "running" THEN w
    ELSE IF get_aborts(v.accum_fbo)
    THEN [w EXCEPT !.last = Call("draw", res, should_clear, w, "assert"),
                   !.status = "abort"]
    ELSE [issue(w, draw_commands(v, res, should_clear)) EXCEPT
            !.viz.current_tick = next_tick(@),
            !.last = Call("draw", res, should_clear, w, "returned")]

\* draw is const: it changes no field of the engine.  accum_fbo.get() asserts
\* that the handle is not null.
draw(w, res, should_clear) ==
    LET v == w.viz IN
    IF w.status # "running" THEN w
    ELSE IF get_aborts(v.accum_fbo)
    THEN [w EXCEPT !.last = Call("draw", res, should_clear, w, "assert"),
                   !.status = "abort"]
    ELSE [issue(w, draw_commands(v, res, should_clear)) EXCEPT
            !.last = Call("draw", res, should_clear, w, "returned")]

\* Variant: the grid is rounded up to the work-group size
round_to_workgroup_up(n, wg) == ((n + wg - 1) \div wg) * wg

\* grid_size /= workgroup_size; grid_size *= workgroup_size;
round_to_workgroup(n, wg) == (n \div wg) * wg

\* Field_viz::Field_viz: the grid is rounded down to the work-group size;
\* a particle count of zero is fatal.  The members start as declared.  The
\* first entry of the commands records the call and its configuration.

Field_viz(w, cfg) ==
    LET grid == Resolution(
                  round_to_workgroup(cfg.particle_grid_size.x, workgroup_size.x),
                  round_to_workgroup(cfg.particle_grid_size.y, workgroup_size.y))
        v == [grid_size |-> grid,
              current_tick |-> 0,
              particle_lifetime |-> cfg.particle_lifetime,
              accum_fbo_size |-> Resolution(0, 0),
              accum_fbo |-> 0,
              accum_rbo |-> 0,
              num_vortices |-> 0,
              num_pushers |-> 0,
              particles_buffer |-> 0,
              actors_buffer |-> 0,
              lines_vao |-> 0,
              draw_particles_program |-> 0,
              update_particles_program |-> 0]
    IN
    IF w.status # "running" THEN w
    ELSE IF get_total_particles(grid) = 0
    THEN [w EXCEPT !.viz = v,
                   !.cmds = @ \o << Cmd("Field_viz", cfg.particle_grid_size.x,
                                        cfg.particle_grid_size.y, cfg.particle_lifetime) >>,
                   !.status = "fatal"]
    ELSE poll_errors_and_die(
           [issue(w,
               << Cmd("Field_viz", cfg.particle_grid_size.x,
                                  cfg.particle_grid_size.y, cfg.particle_lifetime),
                  Cmd("create_buffer", 1, 0, 0),
                  Cmd("buffer_storage", 1, 16 * get_total_particles(grid), 0),
                  Cmd("gen_vertex_array", 1, 0, 0),
                  Cmd("create_buffer", 2, 0, 0),
                  Cmd("buffer_storage", 2, sizeof_GPU_actors, 0),
                  Cmd("map_buffer_range", 2, 0, sizeof_GPU_actors),
                  Cmd("create_program", 1, 0, 0),
                  Cmd("create_program", 2, 0, 0) >>)
            EXCEPT
            !.viz = [v EXCEPT !.particles_buffer = 1,
                              !.lines_vao = 1,
                              !.actors_buffer = 2,
                              !.draw_particles_program = 1,
                              !.update_particles_program = 2],
            !.gl.mapped = TRUE],
           "field viz init")

\* Variant: the actor buffer is deleted while still mapped, the unmap comes
\* after
destroy_commands_unmap_late(v) ==
    << Cmd("delete_buffer", v.actors_buffer, 0, 0),
       Cmd("unmap_buffer", v.actors_buffer, 0, 0) >>
    \o (IF v.accum_rbo # 0
        THEN << Cmd("delete_renderbuffer", v.accum_rbo, 0, 0) >>
        ELSE << >>)
    \o (IF v.accum_fbo # 0
        THEN << Cmd("delete_framebuffer", v.accum_fbo, 0, 0) >>
        ELSE << >>)
    \o << Cmd("delete_program", v.update_particles_program, 0, 0),
          Cmd("delete_program", v.draw_particles_program, 0, 0),
          Cmd("delete_vertex_array", v.lines_vao, 0, 0),
          Cmd("delete_buffer", v.particles_buffer, 0, 0) >>

\* The commands of ~Field_viz: the body (gl::unmap_buffer(actors_buffer)),
\* then the deleters of the members in reverse order of declaration:
\* actors_buffer, accum_rbo, accum_fbo, update_particles_program,
\* draw_particles_program, lines_vao, particles_buffer.
destroy_commands(v) ==
    << Cmd("unmap_buffer", v.actors_buffer, 0, 0),
       Cmd("delete_buffer", v.actors_buffer, 0, 0) >>
    \o (IF v.accum_rbo # 0
        THEN << Cmd("delete_renderbuffer", v.accum_rbo, 0, 0) >>
        ELSE << >>)
    \o (IF v.accum_fbo # 0
        THEN << Cmd("delete_framebuffer", v.accum_fbo, 0, 0) >>
        ELSE << >>)
    \o << Cmd("delete_program", v.update_particles_program, 0, 0),
          Cmd("delete_program", v.draw_particles_program, 0, 0),
          Cmd("delete_vertex_array", v.lines_vao, 0, 0),
          Cmd("delete_buffer", v.particles_buffer, 0, 0) >>

\* Field_viz::~Field_viz: unmap the actor buffer, then the members are
\* destroyed in reverse order of declaration.
destroy_Field_viz(w) ==
    LET v == w.viz IN
    IF w.status # "running" THEN w
    ELSE IF get_aborts(v.actors_buffer)
    THEN [w EXCEPT !.last = Call("destroy", Resolution(0, 0), FALSE, w, "assert"),
                   !.status = "abort"]
    ELSE [issue(w, destroy_commands(v)) EXCEPT
            !.last = Call("destroy", Resolution(0, 0), FALSE, w, "returned"),
            !.viz.actors_buffer = 0,
            !.viz.accum_rbo = 0,
            !.viz.accum_fbo = 0,
            !.viz.update_particles_program = 0,
            !.viz.draw_particles_program = 0,
            !.viz.lines_vao = 0,
            !.viz.particles_buffer = 0,
            !.gl.rbo_deleted = release(@, v.accum_rbo),
            !.gl.fbo_deleted = release(@, v.accum_fbo),
            !.gl.mapped = FALSE]

---------------------------------------------------------------------------
(* Context and the free-function API *)

screen_res_x == 1560
screen_res_y == 960

\* Variant: the configured value is ignored, the axis is always derived
derive_grid_axis_always(configured, res) == res \div default_spacing

\* for (int i: { 0, 1 }) if (grid[i] == 0) grid[i] = resolution[i] / default_spacing;
derive_grid_axis(configured, res) ==
    IF configured = 0 THEN res \div default_spacing ELSE configured

\* Context::Context.  env_ok is whether SDL, the window, the GL context and
\* GLEW came up; any failure there is fatal.  The first entry of the
\* commands records the call and the grid of its configuration.
Context(w, cfg, env_ok, driver_ok) ==
    LET resolution == Resolution(cfg.screen_res_x, cfg.screen_res_y)
        fvcfg == [particle_grid_size |->
                     Resolution(derive_grid_axis(cfg.particles_x, resolution.x),
                                derive_grid_axis(cfg.particles_y, resolution.y)),
                  particle_lifetime |-> cfg.particle_lifetime]
        w1 == [w EXCEPT
                 !.ctx.resolution = resolution,
                 !.cmds = @ \o << Cmd("Context", cfg.particles_x, cfg.particles_y,
                                      cfg.particle_lifetime) >>]
    IN
    IF w.status # "running" THEN w
    ELSE IF ~env_ok THEN [w1 EXCEPT !.status = "fatal"]
    ELSE ensure_least_framebuffer_size(
             Field_viz(poll_errors_and_die(issue(w1, << >>), "context init"), fvcfg),
             resolution, driver_ok)

\* Variant: the new resolution is stored but the surface is not re-evaluated
update_resolution_no_ensure(w, res, driver_ok) ==
    IF w.status # "running" THEN w
    ELSE [w EXCEPT !.ctx.resolution = res]

\* Context::update_resolution
update_resolution(w, res, driver_ok) ==
    IF w.status # "running" THEN w
    ELSE ensure_least_framebuffer_size([w EXCEPT !.ctx.resolution = res], res, driver_ok)

\* Context::~Context
destroy_Context(w) == poll_errors_and_die(destroy_Field_viz(w), "context deinit")

\* Variant: every window event is taken for a resize
handle_sdl_event_any_window(w, ev) ==
    IF ev.type = "WINDOWEVENT"
    THEN update_resolution(w, Resolution(ev.data1, ev.data2), ev.driver_ok)
    ELSE w

\* gfx::handle_sdl_event.  driver_ok travels with the event: it is the
\* driver's verdict on the framebuffer this event may cause to be created.
handle_sdl_event(w, ev) ==
    IF ev.type = "WINDOWEVENT" /\ ev.sub = "RESIZED"
    THEN update_resolution(w, Resolution(ev.data1, ev.data2), ev.driver_ok)
    ELSE w

\* gfx::fieldviz_draw
fieldviz_draw(w, should_clear) == draw(w, w.ctx.resolution, should_clear)

\* gfx::fieldviz_update
fieldviz_update(w) == advance_simulation(w)

\* gfx::present_frame
present_frame(w) ==
    IF w.status # "running" THEN w
    ELSE [poll_errors_and_warn(w, "latest frame") EXCEPT
            !.cmds = @ \o << Cmd("swap_window", 0, 0, 0) >>]

---------------------------------------------------------------------------
(* main: Input_state and the frame loop *)

Event(type, sub, shift, data1, data2, driver_ok) ==
    [type |-> type, sub |-> sub, shift |-> shift,
     data1 |-> data1, data2 |-> data2, driver_ok |-> driver_ok]

\* The switch of poll_events on one event.
switch_on_event(inp, ev) ==
    IF ev.type = "QUIT" THEN [inp EXCEPT !.should_quit = TRUE]
    ELSE IF ev.type = "KEYDOWN" THEN
        IF ev.sub = "q" THEN [inp EXCEPT !.should_quit = TRUE]
        ELSE IF ev.sub = "c"
        THEN [inp EXCEPT !.should_clear_frame = ~inp.should_clear_frame]
        ELSE IF ev.sub = "f"
        THEN [inp EXCEPT !.should_freeze_field = ~inp.should_freeze_field]
        ELSE inp
    ELSE inp

\* case SDLK_d: if (mod & KMOD_SHIFT) asm("int3") -- a breakpoint trap, which
\* stops the process.
traps(ev) == ev.type = "KEYDOWN" /\ ev.sub = "d" /\ ev.shift

\* One iteration of the loop of Input_state::poll_events: SDL_PollEvent
\* returned this event.
poll_events_body(w, inp, ev) ==
    LET w1 == handle_sdl_event(w, ev)
        alive == w1.status = "running"
    IN [w |-> IF alive /\ traps(ev) THEN [w1 EXCEPT !.status = "trap"] ELSE w1,
        input |-> IF alive THEN switch_on_event(inp, ev) ELSE inp]

\* Variant: the freeze toggle is not consulted
after_poll_no_freeze(inp) ==
    IF inp.should_quit THEN "deinit" ELSE "update"

\* Where the loop of main goes after poll_events: out of the loop on
\* should_quit, otherwise to fieldviz_update unless the field is frozen.
after_poll(inp) ==
    IF inp.should_quit THEN "deinit"
    ELSE IF ~inp.should_freeze_field THEN "update"
    ELSE "draw"

\* After fieldviz_update comes fieldviz_draw, then present_frame, then the
\* next poll_events.
after_update == "draw"
after_draw == "present"
after_present == "poll"

---------------------------------------------------------------------------
(* Inputs *)

ExtentsX == {0, 800, 1000, 1024, 3000, 5000}
ExtentsY == {0, 600, 700, 2100, 5000}
Extents == {Resolution(x, y) : x \in ExtentsX, y \in ExtentsY}

DrawExtents == {Resolution(800, 600), Resolution(1200, 600), Resolution(3840, 2160)}

\* Grids the engine is constructed with in Spec (before rounding).  The
\* second one is a tall strip of 35.8 million particles, whose height times a
\* viewport width of 3840 is above 2^32.
EngineGrids == {Resolution(780, 480), Resolution(32, 1118496)}

\* Grids given on the command line (0 for auto).  The product of the last
\* two is 2^32 and 2^32 + 2^21.
ConfigGrids ==
    {Resolution(0, 0), Resolution(64, 0), Resolution(0, 100), Resolution(31, 100),
     Resolution(65536, 65536), Resolution(65536, 65568)}

ResizeSizes ==
    {Resolution(800, 600), Resolution(1600, 1000), Resolution(1024, 2100),
     Resolution(3841, 600)}

Events ==
    {Event("QUIT", "", FALSE, 0, 0, TRUE),
     Event("KEYDOWN", "q", FALSE, 0, 0, TRUE),
     Event("KEYDOWN", "c", FALSE, 0, 0, TRUE),
     Event("KEYDOWN", "f", FALSE, 0, 0, TRUE),
     Event("KEYDOWN", "d", TRUE, 0, 0, TRUE),
     Event("KEYDOWN", "d", FALSE, 0, 0, TRUE),
     Event("WINDOWEVENT", "MOVED", FALSE, 5000, 5000, TRUE),
     Event("MOUSEMOTION", "", FALSE, 3000, 700, TRUE),
     Event("WINDOWEVENT", "RESIZED", FALSE, 1600, 1000, FALSE)}
    \cup {Event("WINDOWEVENT", "RESIZED", FALSE, r.x, r.y, TRUE) : r \in ResizeSizes}

---------------------------------------------------------------------------
(* State *)

NoViz ==
    [grid_size |-> Resolution(0, 0), current_tick |-> 0,
     particle_lifetime |-> 0, accum_fbo_size |-> Resolution(0, 0),
     accum_fbo |-> 0, accum_rbo |-> 0, num_vortices |-> 0, num_pushers |-> 0,
     particles_buffer |-> 0, actors_buffer |-> 0, lines_vao |-> 0,
     draw_particles_program |-> 0, update_particles_program |-> 0]

NoGl == [fbo_gen |-> 0, rbo_gen |-> 0, fbo_deleted |-> << >>, rbo_deleted |-> << >>,
         mapped |-> FALSE, errors |-> 0, raised |-> 0, reported |-> 0]

NoCall ==
    [op |-> "none", arg |-> Resolution(0, 0), clear |-> FALSE,
     prev_size |-> Resolution(0, 0), prev_fbo |-> 0, prev_rbo |-> 0,
     prev_gl |-> NoGl, repeat |-> FALSE, outcome |-> "none"]

NoInput == [should_quit |-> FALSE, should_clear_frame |-> FALSE,
            should_freeze_field |-> FALSE]

\* for (SDL_Event event; SDL_PollEvent(&event); ): outside the loop of
\* poll_events there is no event
NoEvent == [type |-> "NONE", sub |-> "", shift |-> FALSE,
            data1 |-> 0, data2 |-> 0, driver_ok |-> TRUE]

NoFrame == [calls |-> << >>, tick0 |-> 0, freeze |-> FALSE]

---------------------------------------------------------------------------
(* The command line (src/src/main.cpp, get_config) *)

\* A std::string_view is a sequence of characters; positions count from 0
\* as in the code.
npos == -1

starts_with(s, prefix) ==
    Len(s) >= Len(prefix) /\ SubSeq(s, 1, Len(prefix)) = prefix

\* s.substr(pos)
substr(s, pos) == SubSeq(s, pos + 1, Len(s))

\* s.substr(pos, n)
substr_n(s, pos, n) == SubSeq(s, pos + 1, pos + n)

\* s.find(c): position of the first c, npos when there is none
find(s, c) ==
    IF \E i \in 1..Len(s) : s[i] = c
    THEN (CHOOSE i \in 1..Len(s) :
             s[i] = c /\ \A j \in 1..(i - 1) : s[j] # c) - 1
    ELSE npos

DecimalDigits == << "0", "1", "2", "3", "4", "5", "6", "7", "8", "9" >>

is_digit(c) == \E d \in 1..10 : DecimalDigits[d] = c

digit_value(c) == (CHOOSE d \in 1..10 : DecimalDigits[d] = c) - 1

\* The longest prefix of s made of decimal digits: what from_chars matches
\* for an unsigned value (no sign, no white space, base 10)
RECURSIVE digit_prefix(_)
digit_prefix(s) ==
    IF s = << >> \/ ~is_digit(Head(s)) THEN << >>
    ELSE << Head(s) >> \o digit_prefix(Tail(s))

\* UINT_MAX = 4294967295 = 10 * u32_max_div_10 + u32_max_mod_10.  The value
\* of a digit string fits unsigned iff no step of the accumulation goes
\* above UINT_MAX.  (The digit strings of Arguments that fit are short, so
\* value * 10 + d is computed without reduction.)
u32_max_div_10 == 429496729
u32_max_mod_10 == 5

RECURSIVE accumulate(_, _)
accumulate(digits, acc) ==
    IF digits = << >> THEN acc
    ELSE LET d == digit_value(Head(digits))
         IN IF \/ acc.out_of_range
               \/ acc.value > u32_max_div_10
               \/ (acc.value = u32_max_div_10 /\ d > u32_max_mod_10)
            THEN accumulate(Tail(digits), [value |-> 0, out_of_range |-> TRUE])
            ELSE accumulate(Tail(digits),
                            [value |-> acc.value * 10 + d, out_of_range |-> FALSE])

\* std::from_chars(first, last, value) for unsigned value: value is written
\* only when a digit string was matched and fits; characters after the
\* digit string are left alone and are no error.
from_chars(str, value) ==
    LET digits == digit_prefix(str)
        r      == accumulate(digits, [value |-> 0, out_of_range |-> FALSE])
    IN  IF digits = << >> THEN [value |-> value, ec |-> "invalid_argument"]
        ELSE IF r.out_of_range THEN [value |-> value, ec |-> "result_out_of_range"]
        ELSE [value |-> r.value, ec |-> "ok"]

\* gfx::Config cfg;
default_Config ==
    [screen_res_x |-> screen_res_x, screen_res_y |-> screen_res_y,
     debug |-> FALSE, msaa_samples |-> 0,
     particles_x |-> 0, particles_y |-> 0,
     particle_lifetime |-> default_particle_lifetime]

str_dashes   == << "-", "-" >>
str_debug    == << "d", "e", "b", "u", "g" >>
str_no_debug == << "n", "o", "-" >> \o str_debug
str_grid     == << "g", "r", "i", "d", "=" >>

NoError == ""

\* for (const auto& d: dims): from_chars writes through d.ptr, which points
\* into cfg; the loop is left at the first dimension that is not a number
process_grid(cfg, arg) ==
    LET x == find(arg, "x")
    IN  IF x = npos
        THEN [cfg |-> cfg, error |-> "grid resolution has format e.g. 200x200"]
        ELSE LET rx   == from_chars(substr_n(arg, 0, x), cfg.particles_x)
                 cfg1 == [cfg EXCEPT !.particles_x = rx.value]
                 ry   == from_chars(substr(arg, x + 1), cfg1.particles_y)
                 cfg2 == [cfg1 EXCEPT !.particles_y = ry.value]
             IN  IF rx.ec # "ok"
                 THEN [cfg |-> cfg1, error |-> "one of the coordinates is not a number"]
                 ELSE IF ry.ec # "ok"
                 THEN [cfg |-> cfg2, error |-> "one of the coordinates is not a number"]
                 ELSE [cfg |-> cfg2, error |-> NoError]

\* The lambda `process` of get_config
process(cfg, arg0) ==
    IF ~starts_with(arg0, str_dashes)
    THEN [cfg |-> cfg, error |-> "options start with --"]
    ELSE LET arg == substr(arg0, 2)
         IN  IF arg = str_debug
             THEN [cfg |-> [cfg EXCEPT !.debug = TRUE], error |-> NoError]
             ELSE IF arg = str_no_debug
             THEN [cfg |-> [cfg EXCEPT !.debug = FALSE], error |-> NoError]
             ELSE IF starts_with(arg, str_grid)
             THEN process_grid(cfg, substr(arg, Len(str_grid)))
             ELSE [cfg |-> cfg, error |-> "unknown option"]

\* One iteration of  for (int i = 1; i < argc; i++): argument i is processed
\* and a warning is printed when process returned a message.  args.argv
\* holds argv[1..argc-1]; before, arg and error describe the iteration.
get_config_step(a) ==
    LET r == process(a.cfg, a.argv[a.i])
    IN  [a EXCEPT !.cfg = r.cfg,
                  !.before = a.cfg,
                  !.arg = a.argv[a.i],
                  !.error = r.error,
                  !.warnings = @ + (IF r.error # NoError THEN 1 ELSE 0),
                  !.i = @ + 1]

\* Before main() runs
NoArgs ==
    [argv |-> << >>, i |-> 0, cfg |-> default_Config, before |-> default_Config,
     arg |-> << >>, error |-> NoError, warnings |-> 0]

---------------------------------------------------------------------------
(* Deferred_init (src/unnamed/part_004) *)

\* A Deferred_init<T> object.  Instances of T are numbered in the order of
\* their construction; storage is the number of the instance the storage
\* holds (0: none), live the instances constructed and not yet destroyed,
\* destroyed the instances in the order of their destruction.  call, before
\* and outcome describe the most recent call: before is the flag when it
\* was made.
NoGuard ==
    [initialized |-> FALSE, storage |-> 0, constructed |-> 0, live |-> {},
     destroyed |-> << >>, call |-> "none", before |-> FALSE, outcome |-> "none"]

\* What a call on storage that holds no object can do (undefined behaviour)
DanglingOutcomes == {"crash", "returned"}

\* Deferred_init_unchecked::init: new (storage) T(args...)
Deferred_init_unchecked_init(g) ==
    [g EXCEPT !.constructed = @ + 1,
              !.storage = g.constructed + 1,
              !.live = @ \cup {g.constructed + 1},
              !.outcome = "returned"]

\* Deferred_init_unchecked::deinit: std::destroy_at(&**this)
Deferred_init_unchecked_deinit(g, dangling) ==
    IF g.storage = 0
    THEN [g EXCEPT !.outcome = dangling]
    ELSE [g EXCEPT !.live = @ \ {g.storage},
                   !.destroyed = Append(@, g.storage),
                   !.storage = 0,
                   !.outcome = "returned"]

\* Deferred_init_unchecked::operator*
Deferred_init_unchecked_access(g, dangling) ==
    IF g.storage = 0 THEN [g EXCEPT !.outcome = dangling]
    ELSE [g EXCEPT !.outcome = "returned"]

Called(g, call) == [g EXCEPT !.call = call, !.before = g.initialized]

\* Deferred_init::init
Deferred_init_init(g) ==
    IF g.initialized /\ ~ndebug
    THEN [Called(g, "init") EXCEPT !.outcome = "assert"]
    ELSE Deferred_init_unchecked_init([Called(g, "init") EXCEPT !.initialized = TRUE])

\* Variant: deinit destroys the object and leaves the flag set
Deferred_init_deinit_flag_kept(g, dangling) ==
    IF ~g.initialized /\ ~ndebug
    THEN [Called(g, "deinit") EXCEPT !.outcome = "assert"]
    ELSE Deferred_init_unchecked_deinit(Called(g, "deinit"), dangling)

\* Deferred_init::deinit.  After a crash the flag is not cleared.
Deferred_init_deinit(g, dangling) ==
    IF ~g.initialized /\ ~ndebug
    THEN [Called(g, "deinit") EXCEPT !.outcome = "assert"]
    ELSE LET r == Deferred_init_unchecked_deinit(Called(g, "deinit"), dangling)
         IN  IF r.outcome = "crash" THEN r ELSE [r EXCEPT !.initialized = FALSE]

\* Deferred_init::operator* (and operator->, which calls it)
Deferred_init_access(g, dangling) ==
    IF ~g.initialized /\ ~ndebug
    THEN [Called(g, "access") EXCEPT !.outcome = "assert"]
    ELSE Deferred_init_unchecked_access(Called(g, "access"), dangling)

\* Where the control thread is after a call on the object
after_guard_call(g) ==
    IF g.outcome = "assert" THEN "aborted"
    ELSE IF g.outcome = "crash" THEN "crashed"
    ELSE "guard"

---------------------------------------------------------------------------
\* The world before anything is constructed
World0 ==
    [viz |-> NoViz, gl |-> NoGl, ctx |-> [resolution |-> Resolution(0, 0)],
     cmds |-> << >>, last |-> NoCall, status |-> "running", raise |-> << >>]

\* The world a handler starts from: the current state, no command issued yet
World ==
    [viz |-> viz, gl |-> gl, ctx |-> ctx, cmds |-> << >>, last |-> last,
     status |-> "running", raise |-> << >>]

\* The same, on a device that raises the errors listed in raise
WorldRaising(raise) == [World EXCEPT !.raise = raise]

\* The state a handler leaves: its world, and the position next_pc unless
\* the process ended in the handler.
Commit(w, next_pc) ==
    /\ viz' = w.viz
    /\ gl' = w.gl
    /\ ctx' = w.ctx
    /\ cmds' = w.cmds
    /\ last' = w.last
    /\ pc' = IF w.status = "running" THEN next_pc ELSE w.status

---------------------------------------------------------------------------
(* Spec: one engine, its operations called in any order *)

Init ==
    /\ pc = "engine"
    /\ ndebug \in BOOLEAN
    /\ \E grid \in EngineGrids :
         LET w == Field_viz(World0, [particle_grid_size |-> grid,
                                     particle_lifetime |-> default_particle_lifetime])
         IN /\ w.status = "running"
            /\ viz = w.viz
            /\ gl = w.gl
            /\ ctx = w.ctx
            /\ cmds = w.cmds
            /\ last = w.last
    /\ input = NoInput
    /\ event = NoEvent
    /\ frame = NoFrame
    /\ advances = 0
    /\ args = NoArgs
    /\ guard = NoGuard

Advance ==
    /\ pc = "engine"
    /\ advances < MaxTick
    /\ Commit(advance_simulation(World), "engine")
    /\ advances' = advances + 1
    /\ UNCHANGED <<args, guard, ndebug, event, input, frame>>

DrawCall ==
    /\ pc = "engine"
    /\ \E res \in DrawExtents, should_clear \in BOOLEAN :
         Commit(draw(World, res, should_clear), "engine")
    /\ UNCHANGED <<args, guard, ndebug, event, input, frame, advances>>

Ensure ==
    /\ pc = "engine"
    /\ \E required_size \in Extents, driver_ok \in BOOLEAN :
         Commit(ensure_least_framebuffer_size(World, required_size, driver_ok), "engine")
    /\ UNCHANGED <<args, guard, ndebug, event, input, frame, advances>>

Destroy ==
    /\ pc = "engine"
    /\ Commit(destroy_Field_viz(World), "destroyed")
    /\ UNCHANGED <<args, guard, ndebug, event, input, frame, advances>>

Next == Advance \/ DrawCall \/ Ensure \/ Destroy

Spec == Init /\ [][Next]_vars

---------------------------------------------------------------------------
(* SpecMain: the program *)

InitMain ==
    /\ pc = "init"
    /\ ndebug \in BOOLEAN
    /\ viz = NoViz
    /\ gl = NoGl
    /\ ctx = World0.ctx
    /\ cmds = << >>
    /\ last = NoCall
    /\ input = NoInput
    /\ event = NoEvent
    /\ frame = NoFrame
    /\ advances = 0
    /\ args = NoArgs
    /\ guard = NoGuard

\* gfx::init(get_config(argc, argv)), then Input_state input
GfxInit ==
    /\ pc = "init"
    /\ \E grid \in ConfigGrids, env_ok \in BOOLEAN, driver_ok \in BOOLEAN :
         Commit(Context(World,
                        [screen_res_x |-> screen_res_x, screen_res_y |-> screen_res_y,
                         particles_x |-> grid.x, particles_y |-> grid.y,
                         particle_lifetime |-> default_particle_lifetime],
                        env_ok, driver_ok),
                "poll")
    /\ UNCHANGED <<args, guard, ndebug, event, input, frame, advances>>

\* poll_events: SDL_PollEvent returns an event, the loop body handles it
PollEvent ==
    /\ pc = "poll"
    /\ \E e \in Events :
         LET r == poll_events_body(World, input, e)
         IN /\ Commit(r.w, "poll")
            /\ input' = r.input
            /\ event' = e
    /\ UNCHANGED <<args, guard, ndebug, frame, advances>>

\* poll_events: SDL_PollEvent returns 0, poll_events returns and the loop
\* condition !input.poll_events().should_quit is evaluated.  A new iteration
\* of the frame loop starts here.
PollReturn ==
    /\ pc = "poll"
    /\ pc' = after_poll(input)
    /\ frame' = [calls |-> << "poll_events" >>,
                 tick0 |-> viz.current_tick,
                 freeze |-> input.should_freeze_field]
    /\ event' = NoEvent
    /\ UNCHANGED <<args, guard, ndebug, viz, gl, ctx, input, cmds, last, advances>>

Update ==
    /\ pc = "update"
    /\ advances < MaxTick
    /\ Commit(fieldviz_update(World), after_update)
    /\ frame' = [frame EXCEPT !.calls = Append(@, "fieldviz_update")]
    /\ advances' = advances + 1
    /\ UNCHANGED <<args, guard, ndebug, event, input>>

Draw ==
    /\ pc = "draw"
    /\ Commit(fieldviz_draw(World, input.should_clear_frame), after_draw)
    /\ frame' = [frame EXCEPT !.calls = Append(@, "fieldviz_draw")]
    /\ UNCHANGED <<args, guard, ndebug, event, input, advances>>

Present ==
    /\ pc = "present"
    /\ Commit(present_frame(World), after_present)
    /\ frame' = [frame EXCEPT !.calls = Append(@, "present_frame")]
    /\ UNCHANGED <<args, guard, ndebug, event, input, advances>>

\* gfx::deinit
Deinit ==
    /\ pc = "deinit"
    /\ Commit(destroy_Context(World), "done")
    /\ UNCHANGED <<args, guard, ndebug, event, input, frame, advances>>

NextMain == GfxInit \/ PollEvent \/ PollReturn \/ Update \/ Draw \/ Present \/ Deinit

SpecMain == InitMain /\ [][NextMain]_vars

---------------------------------------------------------------------------
(* SpecDevice: the program on a device that raises errors *)

\* The configuration, the events and the errors of SpecDevice.  A list of
\* raised errors has one number per batch of commands of the handler: in
\* gfx::init the batches are the context setup, the Field_viz constructor
\* and the first ensure_least_framebuffer_size.
DeviceEvents ==
    {Event("QUIT", "", FALSE, 0, 0, TRUE),
     Event("KEYDOWN", "f", FALSE, 0, 0, TRUE),
     Event("WINDOWEVENT", "RESIZED", FALSE, 1600, 1000, TRUE)}

DeviceRaises == {<< >>, << 1 >>, << 2 >>}

DeviceInitRaises == {<< >>, << 1 >>, << 0, 1 >>, << 0, 0, 1 >>}

\* No more errors are raised once MaxErrors have been
Raises(choices) == IF gl.raised < MaxErrors THEN choices ELSE {<< >>}

DevGfxInit ==
    /\ pc = "init"
    /\ \E env_ok \in BOOLEAN, raise \in Raises(DeviceInitRaises) :
         Commit(Context(WorldRaising(raise),
                        [screen_res_x |-> screen_res_x, screen_res_y |-> screen_res_y,
                         particles_x |-> 0, particles_y |-> 0,
                         particle_lifetime |-> default_particle_lifetime],
                        env_ok, TRUE),
                "poll")
    /\ UNCHANGED <<args, guard, ndebug, event, input, frame, advances>>

DevPollEvent ==
    /\ pc = "poll"
    /\ \E e \in DeviceEvents, raise \in Raises(DeviceRaises) :
         LET r == poll_events_body(WorldRaising(raise), input, e)
         IN /\ Commit(r.w, "poll")
            /\ input' = r.input
            /\ event' = e
    /\ UNCHANGED <<args, guard, ndebug, frame, advances>>

DevUpdate ==
    /\ pc = "update"
    /\ advances < MaxTick
    /\ \E raise \in Raises(DeviceRaises) :
         Commit(fieldviz_update(WorldRaising(raise)), after_update)
    /\ frame' = [frame EXCEPT !.calls = Append(@, "fieldviz_update")]
    /\ advances' = advances + 1
    /\ UNCHANGED <<args, guard, ndebug, event, input>>

DevDraw ==
    /\ pc = "draw"
    /\ \E raise \in Raises(DeviceRaises) :
         Commit(fieldviz_draw(WorldRaising(raise), input.should_clear_frame), after_draw)
    /\ frame' = [frame EXCEPT !.calls = Append(@, "fieldviz_draw")]
    /\ UNCHANGED <<args, guard, ndebug, event, input, advances>>

DevDeinit ==
    /\ pc = "deinit"
    /\ \E raise \in Raises(DeviceRaises) :
         Commit(destroy_Context(WorldRaising(raise)), "done")
    /\ UNCHANGED <<args, guard, ndebug, event, input, frame, advances>>

NextDevice ==
    DevGfxInit \/ DevPollEvent \/ PollReturn \/ DevUpdate \/ DevDraw \/ Present
    \/ DevDeinit

SpecDevice == InitMain /\ [][NextDevice]_vars

---------------------------------------------------------------------------
(* SpecArgs: get_config on a command line *)

Arguments ==
    { str_dashes \o str_debug,                                             \* --debug
      str_dashes \o str_no_debug,                                          \* --no-debug
      str_debug,                                                           \* debug
      str_dashes \o << "f", "a", "s", "t" >>,                              \* --fast
      str_dashes \o str_grid \o << "6", "4", "x", "4", "8" >>,             \* --grid=64x48
      str_dashes \o str_grid \o << "2", "0", "0" >>,                       \* --grid=200
      str_dashes \o str_grid \o << "a", "x", "1", "2" >>,                  \* --grid=ax12
      str_dashes \o str_grid \o << "1", "2", "x", "a" >>,                  \* --grid=12xa
      str_dashes \o str_grid \o << "1", "2", "x" >>,                       \* --grid=12x
      str_dashes \o str_grid \o << "3", "1", "x", "1", "0", "0", "p", "x" >>,  \* --grid=31x100px
      str_dashes \o str_grid
          \o << "7", "x", "9", "9", "9", "9", "9", "9", "9", "9", "9", "9" >> } \* --grid=7x9999999999

\* Command lines of one and of two arguments
CommandLines ==
    { << a >> : a \in Arguments } \cup { << a, b >> : a \in Arguments, b \in Arguments }

InitArgs ==
    /\ pc = "args"
    /\ ndebug \in BOOLEAN
    /\ viz = NoViz
    /\ gl = NoGl
    /\ ctx = World0.ctx
    /\ cmds = << >>
    /\ last = NoCall
    /\ input = NoInput
    /\ event = NoEvent
    /\ frame = NoFrame
    /\ advances = 0
    /\ \E argv \in CommandLines : args = [NoArgs EXCEPT !.argv = argv, !.i = 1]
    /\ guard = NoGuard

\* The body of the loop of get_config, once
GetConfigStep ==
    /\ pc = "args"
    /\ args.i <= Len(args.argv)
    /\ args' = get_config_step(args)
    /\ UNCHANGED <<pc, guard, ndebug, viz, gl, ctx, input, event, cmds, last, frame, advances>>

\* i == argc: return cfg
GetConfigReturn ==
    /\ pc = "args"
    /\ args.i > Len(args.argv)
    /\ pc' = "init"
    /\ UNCHANGED <<args, guard, ndebug, viz, gl, ctx, input, event, cmds, last, frame, advances>>

NextArgs == GetConfigStep \/ GetConfigReturn

SpecArgs == InitArgs /\ [][NextArgs]_vars

---------------------------------------------------------------------------
(* SpecGuard: init, deinit and access of a Deferred_init object in any order *)

InitGuard ==
    /\ pc = "guard"
    /\ ndebug \in BOOLEAN
    /\ viz = NoViz
    /\ gl = NoGl
    /\ ctx = World0.ctx
    /\ cmds = << >>
    /\ last = NoCall
    /\ input = NoInput
    /\ event = NoEvent
    /\ frame = NoFrame
    /\ advances = 0
    /\ args = NoArgs
    /\ guard = NoGuard

GuardInit ==
    /\ pc = "guard"
    /\ guard.constructed < MaxInits
    /\ guard' = Deferred_init_init(guard)
    /\ pc' = after_guard_call(guard')
    /\ UNCHANGED <<args, ndebug, viz, gl, ctx, input, event, cmds, last, frame, advances>>

GuardDeinit ==
    /\ pc = "guard"
    /\ \E dangling \in DanglingOutcomes :
         guard' = Deferred_init_deinit(guard, dangling)
    /\ pc' = after_guard_call(guard')
    /\ UNCHANGED <<args, ndebug, viz, gl, ctx, input, event, cmds, last, frame, advances>>

GuardAccess ==
    /\ pc = "guard"
    /\ \E dangling \in DanglingOutcomes :
         guard' = Deferred_init_access(guard, dangling)
    /\ pc' = after_guard_call(guard')
    /\ UNCHANGED <<args, ndebug, viz, gl, ctx, input, event, cmds, last, frame, advances>>

NextGuard == GuardInit \/ GuardDeinit \/ GuardAccess

SpecGuard == InitGuard /\ [][NextGuard]_vars

---------------------------------------------------------------------------
(* Properties *)

\* The most recent engine call was ensure_least_framebuffer_size and it returned
EnsureReturned ==
    last.op = "ensure" /\ last.outcome \in {"covered", "grown"}

\* Positions in cmds of the commands named op
Positions(op) == {i \in 1..Len(cmds) : cmds[i].op = op}

\* C1: the accumulation surface never shrinks: after every
\* ensure_least_framebuffer_size call that returns, the size is on both axes
\* at least the size before the call, also when the request is smaller than
\* an earlier one.
C1_SizeNeverDecreases ==
    EnsureReturned =>
        /\ viz.accum_fbo_size.x >= last.prev_size.x
        /\ viz.accum_fbo_size.y >= last.prev_size.y

\* C1 witness: a call that grew the surface although its request was below
\* the current size on the x axis
C1_Witness ==
    /\ last.op = "ensure" /\ last.outcome = "grown"
    /\ last.prev_size.x > 0
    /\ last.arg.x < last.prev_size.x
    /\ last.arg.y > last.prev_size.y
    /\ viz.accum_fbo_size.x >= last.prev_size.x

\* C2: after every ensure_least_framebuffer_size(required) that returns, the
\* surface is at least as large as required on both axes.
C2_CoversRequest ==
    EnsureReturned =>
        /\ viz.accum_fbo_size.x >= last.arg.x
        /\ viz.accum_fbo_size.y >= last.arg.y

\* C2 witness: a growth step on a sized axis whose next power of two is above
\* the ceiling
C2_Witness ==
    /\ last.op = "ensure" /\ last.outcome = "grown"
    /\ last.prev_size.y > 0
    /\ last.arg.y > last.prev_size.y
    /\ Pow2(bit_width(last.arg.y)) > max_size_y
    /\ viz.accum_fbo_size.y >= last.arg.y

\* C3: the surface is never larger than the ceiling (3840, 2160), and a
\* power-of-two growth step whose next power of two is above the ceiling on
\* an axis yields exactly the ceiling on that axis.
C3_WithinCeiling ==
    /\ viz.accum_fbo_size.x <= 3840
    /\ viz.accum_fbo_size.y <= 2160
    /\ (last.op = "ensure" /\ last.outcome \in {"grown", "incomplete"}) =>
          /\ (last.prev_size.x # 0 /\ Pow2(bit_width(last.arg.x)) > 3840)
                => viz.accum_fbo_size.x = 3840
          /\ (last.prev_size.y # 0 /\ Pow2(bit_width(last.arg.y)) > 2160)
                => viz.accum_fbo_size.y = 2160

\* C3 witness: a growth step that was cut down to the ceiling on the x axis
C3_Witness ==
    /\ last.op = "ensure" /\ last.outcome = "grown"
    /\ last.prev_size.x # 0
    /\ last.prev_size.x < 3840
    /\ Pow2(bit_width(last.arg.x)) > 3840
    /\ viz.accum_fbo_size.x = 3840

\* C4: a request that is not covered and exceeds the ceiling on either axis
\* ends the process, with the surface (size, framebuffer, colour target) as
\* it was and nothing created or deleted.
C4_TooLargeIsFatal ==
    (/\ last.op = "ensure"
     /\ ~(last.prev_size.x >= last.arg.x /\ last.prev_size.y >= last.arg.y)
     /\ (last.arg.x > 3840 \/ last.arg.y > 2160))
    => /\ pc = "fatal"
       /\ last.outcome = "too_large"
       /\ viz.accum_fbo_size = last.prev_size
       /\ viz.accum_fbo = last.prev_fbo
       /\ viz.accum_rbo = last.prev_rbo
       /\ gl = last.prev_gl
       /\ cmds = << >>

\* C4 witness: a surface that exists, and a request too tall only
C4_Witness ==
    /\ pc = "fatal"
    /\ last.op = "ensure" /\ last.outcome = "too_large"
    /\ last.arg.x <= 3840 /\ last.arg.y > 2160
    /\ last.prev_fbo # 0
    /\ viz.accum_fbo = last.prev_fbo

\* C5: the first call on a fresh surface, with a request within the ceiling,
\* leaves the size exactly equal to the request.
C5_FirstCallExact ==
    (/\ last.op = "ensure"
     /\ last.prev_size = Resolution(0, 0) /\ last.prev_fbo = 0
     /\ last.arg.x <= 3840 /\ last.arg.y <= 2160)
    => viz.accum_fbo_size = last.arg

\* C5 witness: a first request that is not a power of two on either axis
C5_Witness ==
    /\ last.op = "ensure" /\ last.outcome = "grown"
    /\ last.prev_size = Resolution(0, 0) /\ last.prev_fbo = 0
    /\ last.arg = Resolution(800, 600)
    /\ viz.accum_fbo_size = Resolution(800, 600)

\* C6: a call made when the surface already covers the request changes
\* nothing and issues no command; in particular the second of two
\* consecutive calls with the same request does not reallocate.
C6_CoveredIsNoOp ==
    (/\ last.op = "ensure"
     /\ \/ (last.prev_size.x >= last.arg.x /\ last.prev_size.y >= last.arg.y)
        \/ last.repeat)
    => /\ last.outcome = "covered"
       /\ viz.accum_fbo_size = last.prev_size
       /\ viz.accum_fbo = last.prev_fbo
       /\ viz.accum_rbo = last.prev_rbo
       /\ gl = last.prev_gl
       /\ Positions("gen_framebuffer") = {}
       /\ Positions("gen_renderbuffer") = {}
       /\ Positions("delete_framebuffer") = {}
       /\ Positions("delete_renderbuffer") = {}
       /\ Positions("renderbuffer_storage") = {}

\* C6 witness: the second of two calls with the same request, the first of
\* which created the surface at exactly that size
C6_Witness ==
    /\ pc = "engine"
    /\ last.op = "ensure" /\ last.repeat
    /\ last.arg = viz.accum_fbo_size
    /\ last.arg.x > 0
    /\ gl.fbo_gen = 1
    /\ viz.accum_fbo = 1

\* C7: the tick counter is 0 after construction and always equals the number
\* of advance_simulation calls made so far.
C7_TickCountsAdvances ==
    /\ viz.current_tick = advances
    /\ (last.op = "none") => viz.current_tick = 0

\* C7 witness: two consecutive advances from a new engine
C7_Witness ==
    /\ advances = 2
    /\ viz.current_tick = 2
    /\ last.op = "advance" /\ last.repeat

\* C8: within an advance, both flushes come after every write into the
\* mapping and before the dispatch, and no write comes between the flushes
\* and the dispatch.
C8_FlushBetweenWriteAndDispatch ==
    (last.op = "advance" /\ pc = "engine") =>
        LET W == Positions("write_vortex") \cup Positions("write_pusher")
            F == Positions("flush")
            D == Positions("dispatch")
        IN /\ Cardinality(F) = 2
           /\ Cardinality(D) = 1
           /\ W # {}
           /\ \A i \in W, f \in F : i < f
           /\ \A f \in F, d \in D : f < d
           /\ \A i \in W, d \in D : i < d

\* C8 witness: an advance that wrote, flushed and dispatched
C8_Witness ==
    /\ pc = "engine"
    /\ last.op = "advance"
    /\ Positions("write_vortex") # {}
    /\ Positions("write_pusher") # {}
    /\ Positions("flush") # {}
    /\ Positions("dispatch") # {}

\* Whether s is an initial part of t
IsPrefix(s, t) == Len(s) <= Len(t) /\ \A i \in 1..Len(s) : s[i] = t[i]

FrameWithUpdate == << "poll_events", "fieldviz_update", "fieldviz_draw", "present_frame" >>
FrameFrozen == << "poll_events", "fieldviz_draw", "present_frame" >>

\* C9: in every iteration of the frame loop fieldviz_update is called at most
\* once and only before fieldviz_draw, fieldviz_draw exactly once and before
\* present_frame; while the field is frozen fieldviz_update is not called and
\* the tick is the same before and after the frame, but draw and present run.
C9_FrameOrder ==
    /\ IsPrefix(frame.calls, FrameWithUpdate) \/ IsPrefix(frame.calls, FrameFrozen)
    /\ (pc = "poll" /\ frame.calls # << >>) =>
          /\ frame.calls \in {FrameWithUpdate, FrameFrozen}
          /\ frame.freeze => (frame.calls = FrameFrozen
                              /\ viz.current_tick = frame.tick0)
    /\ frame.freeze =>
          /\ \A i \in 1..Len(frame.calls) : frame.calls[i] # "fieldviz_update"
          /\ pc \in {"draw", "present"} => viz.current_tick = frame.tick0

\* C9 witness: a frozen frame, complete, after the field had advanced
C9_Witness ==
    /\ pc = "poll"
    /\ frame.freeze
    /\ frame.calls = FrameFrozen
    /\ frame.tick0 > 0
    /\ viz.current_tick = frame.tick0

\* C10: at every draw reached through init, resize events and the frame
\* loop the accumulation surface covers the resolution used for the viewport
\* and for the blit.
C10_DrawIsCovered ==
    /\ pc \in {"poll", "update", "draw", "present"} =>
          /\ viz.accum_fbo_size.x >= ctx.resolution.x
          /\ viz.accum_fbo_size.y >= ctx.resolution.y
          /\ viz.accum_fbo # 0
    /\ pc = "present" =>
          /\ last.op = "draw"
          /\ last.arg = ctx.resolution
          /\ Positions("viewport") # {}
          /\ Positions("blit_framebuffer") # {}
          /\ \A i \in Positions("viewport") \cup Positions("blit_framebuffer") :
                /\ cmds[i].a <= viz.accum_fbo_size.x
                /\ cmds[i].b <= viz.accum_fbo_size.y
          /\ \A i \in Positions("bind_framebuffer") : cmds[i].a = viz.accum_fbo

\* C10 witness: a draw at a resolution set by a resize event that made the
\* surface grow
C10_Witness ==
    /\ pc = "present"
    /\ last.op = "draw"
    /\ ctx.resolution = Resolution(1600, 1000)
    /\ viz.accum_fbo_size = Resolution(2048, 1024)
    /\ Positions("viewport") # {}

\* The grid the Field_viz constructor was called with, while the commands of
\* the handler that constructed it are the current ones
ConstructedWith == {Resolution(cmds[i].a, cmds[i].b) : i \in Positions("Field_viz")}

\* The constructor got past its fatal check and created the engine's objects
Constructed == Positions("Field_viz") # {} /\ Positions("create_buffer") # {}

\* C11: for a requested grid (w, h) and the work-group size (32, 32), the
\* grid after construction is a multiple of 32 on both axes, is not larger
\* than the request, and is the largest such extent (less than 32 is lost on
\* each axis).
C11_GridRoundedDown ==
    Constructed =>
        \A requested \in ConstructedWith :
            /\ viz.grid_size.x % 32 = 0
            /\ viz.grid_size.y % 32 = 0
            /\ viz.grid_size.x <= requested.x
            /\ viz.grid_size.y <= requested.y
            /\ requested.x - viz.grid_size.x < 32
            /\ requested.y - viz.grid_size.y < 32

\* C11 witness: a grid of 780 x 100 was requested, 768 x 96 was constructed
C11_Witness ==
    /\ Constructed
    /\ Resolution(780, 100) \in ConstructedWith
    /\ viz.grid_size = Resolution(768, 96)

\* The process ended in the fatal branch of the Field_viz constructor: the
\* constructor was entered and the process died before any engine call
ConstructorFatal ==
    pc = "fatal" /\ Positions("Field_viz") # {} /\ last.op = "none"

\* C12: if rounding the requested grid down to the work-group size gives
\* zero on either axis, construction ends fatally before any buffer, vertex
\* array or program is created; if both rounded axes are non-zero,
\* construction does not take this fatal path.
C12_ZeroGridIsFatal ==
    \A requested \in ConstructedWith :
        LET rounded_x == (requested.x \div 32) * 32
            rounded_y == (requested.y \div 32) * 32
        IN /\ (rounded_x = 0 \/ rounded_y = 0) =>
                /\ ConstructorFatal
                /\ Positions("create_buffer") = {}
                /\ Positions("gen_vertex_array") = {}
                /\ Positions("create_program") = {}
           /\ (rounded_x # 0 /\ rounded_y # 0) => ~ConstructorFatal

\* The grid of the configuration gfx::init was called with, while the
\* commands of init are the current ones
ConfiguredWith == {Resolution(cmds[i].a, cmds[i].b) : i \in Positions("Context")}

\* C13: at init each grid axis configured as 0 is derived as the resolution
\* on that axis divided by 2 (integer division), whatever the other axis is,
\* and a non-zero configured axis is kept as given; with grid (0, 0) and
\* resolution (1560, 960) the grid before rounding is (780, 480).
C13_GridDerivedPerAxis ==
    \A configured \in ConfiguredWith : \A passed \in ConstructedWith :
        /\ passed.x = IF configured.x = 0 THEN ctx.resolution.x \div 2 ELSE configured.x
        /\ passed.y = IF configured.y = 0 THEN ctx.resolution.y \div 2 ELSE configured.y
        /\ (configured = Resolution(0, 0) /\ ctx.resolution = Resolution(1560, 960))
              => passed = Resolution(780, 480)

\* C13 witness: the x axis was configured (64) and kept, the y axis was 0
\* and derived from the resolution
C13_Witness ==
    /\ pc = "poll"
    /\ Resolution(64, 0) \in ConfiguredWith
    /\ Resolution(64, 480) \in ConstructedWith
    /\ ctx.resolution = Resolution(1560, 960)

\* The entries of the actor block written by the handler that ran last
WrittenEntries(op) == {cmds[i].a : i \in Positions(op)}

\* C14: after the force-field step of every advance_simulation, whatever the
\* tick and the grid, num_vortices <= 16 and num_pushers <= 16 and every
\* entry written into the vortex and pusher arrays lies below the capacity;
\* the counts start from zero in each tick, so the entries written are
\* 0 .. count - 1 and the counts do not add up across ticks.
C14_ActorCountsWithinCapacity ==
    /\ viz.num_vortices <= 16
    /\ viz.num_pushers <= 16
    /\ (last.op = "advance" /\ pc = "engine") =>
          /\ \A e \in WrittenEntries("write_vortex") : e >= 0 /\ e < 16
          /\ \A e \in WrittenEntries("write_pusher") : e >= 0 /\ e < 16
          /\ WrittenEntries("write_vortex") = 0 .. (viz.num_vortices - 1)
          /\ WrittenEntries("write_pusher") = 0 .. (viz.num_pushers - 1)

\* C14 witness: the second tick wrote the same three vortex entries and two
\* pusher entries as the first
C14_Witness ==
    /\ last.op = "advance"
    /\ viz.current_tick = 2
    /\ viz.num_vortices = 3
    /\ viz.num_pushers = 2
    /\ WrittenEntries("write_vortex") = {0, 1, 2}
    /\ WrittenEntries("write_pusher") = {0, 1}

\* Comparisons of a float of the draw (a fraction) with 1
AtLeastOne(f) == f.den > 0 /\ f.num >= f.den
EqualsOne(f) == f.den > 0 /\ f.num = f.den
AboveOne(f) == f.den > 0 /\ f.num > f.den

\* a * b > n and a * b < n over the integers, for a >= 0, b > 0 and n > 0,
\* decided without forming a * b (which may lie above 2^31)
ProductAbove(a, b, n) == a > n \div b
ProductBelow(a, b, n) == a <= (n - 1) \div b

\* C15: for a grid (gx, gy) and a viewport (rx, ry) with all components
\* positive, the scale uploaded by draw has both components at least 1 and
\* one of them equal to 1; scale.x is above 1 exactly when gx*ry > gy*rx
\* and scale.y is above 1 exactly when gx*ry < gy*rx.
C15_ScaleKeepsAspect ==
    (/\ last.op = "draw" /\ last.outcome = "returned"
     /\ viz.grid_size.x > 0 /\ viz.grid_size.y > 0
     /\ last.arg.x > 0 /\ last.arg.y > 0) =>
        /\ Positions("uniform2f") # {}
        /\ \A i \in Positions("uniform2f") :
              LET scale_x == cmds[i].b
                  scale_y == cmds[i].c
                  gx_ry == viz.grid_size.x * last.arg.y
                  gy == viz.grid_size.y
                  rx == last.arg.x
              IN /\ cmds[i].a = 4
                 /\ AtLeastOne(scale_x)
                 /\ AtLeastOne(scale_y)
                 /\ EqualsOne(scale_x) \/ EqualsOne(scale_y)
                 /\ AboveOne(scale_x) <=> ProductBelow(gy, rx, gx_ry)
                 /\ AboveOne(scale_y) <=> ProductAbove(gy, rx, gx_ry)

\* ensure_least_framebuffer_size went past its two early exits, assigned a
\* new size and returned
EnsureGrew == last.op = "ensure" /\ last.outcome = "grown"

PowersOfTwo == {Pow2(k) : k \in 0..13}

SmallestPowerOfTwoAtLeast(n) ==
    CHOOSE p \in PowersOfTwo : p >= n /\ \A q \in PowersOfTwo : q >= n => p <= q

SmallestPowerOfTwoAbove(n) ==
    CHOOSE p \in PowersOfTwo : p > n /\ \A q \in PowersOfTwo : q > n => p <= q

\* C16 as stated: when ensure_least_framebuffer_size grows the surface and
\* an axis has been sized before, the new size on that axis is the smallest
\* power of two that is at least the requested size and at least the
\* previous size on that axis, clamped to the ceiling.
C16_SmallestPowerOfTwoCovering ==
    EnsureGrew =>
        /\ last.prev_size.x # 0 =>
              viz.accum_fbo_size.x =
                  Min(SmallestPowerOfTwoAtLeast(Max(last.arg.x, last.prev_size.x)), 3840)
        /\ last.prev_size.y # 0 =>
              viz.accum_fbo_size.y =
                  Min(SmallestPowerOfTwoAtLeast(Max(last.arg.y, last.prev_size.y)), 2160)

\* C16, amended: when ensure_least_framebuffer_size grows the surface and an
\* axis has been sized before, the new size on that axis is the larger of
\* the previous size and the smallest power of two strictly above the
\* requested size, clamped to the ceiling.  A request that is itself a power
\* of two is doubled, and a previous size that is not a power of two is kept
\* when it is the larger one.
C16_NextPowerOfTwoOrPrevious ==
    EnsureGrew =>
        /\ last.prev_size.x # 0 =>
              viz.accum_fbo_size.x =
                  Min(Max(last.prev_size.x, SmallestPowerOfTwoAbove(last.arg.x)), 3840)
        /\ last.prev_size.y # 0 =>
              viz.accum_fbo_size.y =
                  Min(Max(last.prev_size.y, SmallestPowerOfTwoAbove(last.arg.y)), 2160)

\* C16 witness: the surface was 800 x 600 and 1024 x 700 was requested; the
\* width, an exact power of two, was doubled
C16_Witness ==
    /\ last.op = "ensure" /\ last.outcome = "grown"
    /\ last.prev_size = Resolution(800, 600)
    /\ last.arg = Resolution(1024, 700)
    /\ viz.accum_fbo_size = Resolution(2048, 1024)

\* C17: starting from a fresh surface, ensure_least_framebuffer_size
\* ({800, 600}) gives size {800, 600}, and a following
\* ensure_least_framebuffer_size({1000, 700}) gives size {1024, 1024}.
C17_ScenarioB ==
    /\ (/\ EnsureReturned
        /\ last.prev_size = Resolution(0, 0) /\ last.prev_fbo = 0
        /\ last.arg = Resolution(800, 600))
          => viz.accum_fbo_size = Resolution(800, 600)
    /\ (/\ EnsureReturned
        /\ last.prev_size = Resolution(800, 600) /\ last.prev_gl.fbo_gen = 1
        /\ last.arg = Resolution(1000, 700))
          => viz.accum_fbo_size = Resolution(1024, 1024)

\* C17 witness: the second call of the scenario has returned; the surface
\* it found was the first one ever created
C17_Witness ==
    /\ last.op = "ensure" /\ last.outcome = "grown"
    /\ last.prev_size = Resolution(800, 600)
    /\ last.prev_gl.fbo_gen = 1
    /\ last.arg = Resolution(1000, 700)
    /\ viz.accum_fbo_size = Resolution(1024, 1024)
    /\ gl.fbo_gen = 2

\* C18: draw(resolution, should_clear) clears the accumulation target, to
\* opaque black, if and only if should_clear is true; with should_clear
\* false nothing is cleared between binding the target and the draw call, so
\* what earlier frames rendered stays in the surface.
C18_ClearIffRequested ==
    (last.op = "draw" /\ last.outcome = "returned") =>
        /\ Positions("bind_framebuffer") # {}
        /\ Positions("draw_arrays") # {}
        /\ last.clear =>
              /\ Cardinality(Positions("clear")) = 1
              /\ \A i \in Positions("clear") :
                    /\ i > 1
                    /\ cmds[i - 1].op = "clear_color"
                    /\ cmds[i - 1].a = 0 /\ cmds[i - 1].b = 1
                    /\ \E b \in Positions("bind_framebuffer") :
                          b < i /\ cmds[b].a = viz.accum_fbo
                    /\ \A d \in Positions("draw_arrays") : i < d
        /\ ~last.clear =>
              /\ Positions("clear") = {}
              /\ Positions("clear_color") = {}

\* C18 witness: a draw without clearing, into a surface that exists
C18_Witness ==
    /\ last.op = "draw" /\ last.outcome = "returned"
    /\ ~last.clear
    /\ viz.accum_fbo # 0
    /\ Positions("clear") = {}
    /\ Positions("draw_arrays") # {}

\* C20: when the engine is destroyed the actor buffer's mapping is unmapped
\* exactly once, before the buffer object is deleted; nothing unmaps it
\* before destruction, so the mapping exists at every write of
\* advance_simulation.
C20_UnmapOnceAtDestruction ==
    /\ pc = "engine" => gl.mapped /\ Positions("unmap_buffer") = {}
    /\ last.op = "advance" =>
          /\ last.prev_gl.mapped
          /\ Positions("write_vortex") # {}
          /\ Positions("unmap_buffer") = {}
    /\ (last.op = "destroy" /\ last.outcome = "returned") =>
          /\ Cardinality(Positions("unmap_buffer")) = 1
          /\ last.prev_gl.mapped
          /\ ~gl.mapped
          /\ \A u \in Positions("unmap_buffer") :
                /\ cmds[u].a # 0
                /\ \E d \in Positions("delete_buffer") : cmds[d].a = cmds[u].a
                /\ \A d \in Positions("delete_buffer") : cmds[d].a = cmds[u].a => u < d

\* C20 witness: an engine that advanced was destroyed
C20_Witness ==
    /\ pc = "destroyed"
    /\ last.op = "destroy" /\ last.outcome = "returned"
    /\ advances > 0
    /\ Positions("unmap_buffer") # {}
    /\ ~gl.mapped

\* C19: on a window-resized event handle_sdl_event sets the context
\* resolution to the size of the event and runs
\* ensure_least_framebuffer_size with that size, in the same handler and so
\* before any later draw; every other event leaves the context resolution
\* and the accumulation surface (size and handles) as they were.
C19_OnlyResizeTouchesSurface ==
    [][(pc = "poll" /\ event' # NoEvent) =>
          LET size == Resolution(event'.data1, event'.data2) IN
          IF event'.type = "WINDOWEVENT" /\ event'.sub = "RESIZED"
          THEN /\ ctx'.resolution = size
               /\ last'.op = "ensure"
               /\ last'.arg = size
               /\ last'.prev_size = viz.accum_fbo_size
               /\ pc' = "poll" =>
                     /\ viz'.accum_fbo_size.x >= size.x
                     /\ viz'.accum_fbo_size.y >= size.y
               /\ pc' \in {"poll", "fatal"}
          ELSE /\ ctx'.resolution = ctx.resolution
               /\ viz'.accum_fbo_size = viz.accum_fbo_size
               /\ viz'.accum_fbo = viz.accum_fbo
               /\ viz'.accum_rbo = viz.accum_rbo
               /\ gl' = gl
      ]_vars

\* C19 witness: a window-resized event to 1600 x 1000 has been handled: the
\* resolution is the event's size and the surface was grown for it
C19_Witness ==
    /\ pc = "poll"
    /\ event.type = "WINDOWEVENT" /\ event.sub = "RESIZED"
    /\ event.data1 = 1600 /\ event.data2 = 1000
    /\ ctx.resolution = Resolution(1600, 1000)
    /\ last.op = "ensure" /\ last.outcome = "grown"
    /\ last.arg = Resolution(1600, 1000)

\* C21: a poll around initialization or teardown (poll_errors_and_die) ends
\* the process when at least one device error is pending and does nothing
\* otherwise; the per-frame poll of present_frame (poll_errors_and_warn) only
\* warns and the frame loop goes on; either poll fetches every pending error,
\* so no error is reported by two polls.
C21_PollsDrainAndDieOrWarn ==
    /\ \A i \in Positions("poll_errors_and_die") :
          /\ cmds[i].b > 0 => pc = "fatal" /\ i = Len(cmds)
          /\ (cmds[i].b = 0 /\ i = Len(cmds)) => pc # "fatal"
          /\ i = Len(cmds) => gl.errors = 0
    /\ \A i \in Positions("poll_errors_and_warn") :
          /\ pc \in {"poll", "update", "draw", "deinit"}
          /\ i < Len(cmds) /\ cmds[i + 1].op = "swap_window"
          /\ gl.errors = 0
    /\ gl.reported + gl.errors = gl.raised

\* C21 witness: present_frame found two errors pending, warned, swapped and
\* the loop is at its next poll_events with nothing pending
C21_Witness ==
    /\ pc = "poll"
    /\ \E i \in Positions("poll_errors_and_warn") :
          cmds[i].b = 2 /\ cmds[i].a = "latest frame"
    /\ Positions("swap_window") # {}
    /\ gl.errors = 0
    /\ gl.reported = 2

\* C22: every argument that get_config rejects (a warning is printed for it)
\* leaves the configuration exactly as it was before the argument was
\* processed.
C22_RejectedArgumentLeavesConfig ==
    args.error # NoError => args.cfg = args.before

GuardMisused ==
    \/ guard.call = "init" /\ guard.before
    \/ guard.call \in {"deinit", "access"} /\ ~guard.before

\* C23: for any sequence of init, deinit and access calls on a Deferred_init
\* object, in a build with assertions: the flag is true exactly while an
\* instance is live; init while one is live, and deinit or access while none
\* is live, trip the assertion (and no other call does); at most one
\* instance is live; every destruction is of an instance constructed earlier
\* and no instance is destroyed twice.  In every build a returned init
\* leaves the flag set and a returned deinit leaves it cleared.
C23_GuardTracksLiveInstance ==
    /\ ~ndebug =>
         /\ guard.initialized <=> guard.live # {}
         /\ guard.live \subseteq {guard.storage}
         /\ Cardinality(guard.live) <= 1
         /\ GuardMisused <=> pc = "aborted"
         /\ pc # "crashed"
         /\ \A i \in 1..Len(guard.destroyed) :
               /\ guard.destroyed[i] \in 1..guard.constructed
               /\ \A j \in 1..Len(guard.destroyed) :
                     guard.destroyed[j] = guard.destroyed[i] => j = i
         /\ Len(guard.destroyed) + Cardinality(guard.live) = guard.constructed
    /\ (guard.call = "init" /\ guard.outcome = "returned") => guard.initialized
    /\ (guard.call = "deinit" /\ guard.outcome = "returned") => ~guard.initialized

C23_Witness ==
    /\ ~ndebug
    /\ pc = "aborted"
    /\ guard.call = "init"
    /\ guard.constructed = 2
    /\ guard.destroyed = << 1 >>
    /\ guard.live = {2}

AllBefore(ops1, ops2) ==
    \A i \in 1..Len(cmds), j \in 1..Len(cmds) :
        (cmds[i].op \in ops1 /\ cmds[j].op \in ops2) => i < j

MappedWriteOps == {"write_vortex", "write_pusher"}

AdvanceReturned == last.op = "advance" /\ last.outcome = "returned"

\* The scalar uniforms advance uploads, in order: tick, particle lifetime,
\* vortex count, pusher count
UniformsUploaded ==
    LET u == SelectSeq(cmds, LAMBDA c : c.op = "uniform1ui")
    IN  u = << Cmd("uniform1ui", unif_loc_tick, viz.current_tick - 1, 0),
               Cmd("uniform1ui", unif_loc_particle_lifetime, viz.particle_lifetime, 0),
               Cmd("uniform1ui", unif_loc_num_vortices, viz.num_vortices, 0),
               Cmd("uniform1ui", unif_loc_num_pushers, viz.num_pushers, 0) >>

\* C24 as stated: advance writes the force sources into the mapping, flushes
\* the written ranges, then uploads the scalar uniforms, then dispatches,
\* then increments the tick; the tick uploaded is the pre-increment value.
C24_FlushThenUniformsThenDispatch ==
    AdvanceReturned =>
        /\ AllBefore(MappedWriteOps, {"flush"})
        /\ AllBefore({"flush"}, {"uniform1ui"})
        /\ AllBefore({"uniform1ui"}, {"dispatch"})
        /\ UniformsUploaded

\* C24, amended: advance writes the force sources into the mapping, binds
\* the update program, uploads the four scalar uniforms, then flushes the
\* two written ranges, then dispatches once as its last command, then
\* increments the tick; the tick uploaded is the pre-increment value.
C24_UniformsThenFlushThenDispatch ==
    AdvanceReturned =>
        /\ AllBefore(MappedWriteOps, {"use_program"})
        /\ AllBefore({"use_program"}, {"uniform1ui"})
        /\ AllBefore({"uniform1ui"}, {"flush"})
        /\ AllBefore({"flush"}, {"dispatch"})
        /\ Cardinality(Positions("flush")) = 2
        /\ Positions("dispatch") = {Len(cmds)}
        /\ Positions("write_vortex") # {} /\ Positions("write_pusher") # {}
        /\ UniformsUploaded

C24_Witness ==
    /\ AdvanceReturned
    /\ viz.current_tick = 2
    /\ \E i \in Positions("uniform1ui") : cmds[i].a = unif_loc_tick /\ cmds[i].b = 1
    /\ \E i \in Positions("flush"), j \in Positions("uniform1ui") : j < i

\* The bytes of the actor block written by the handler that ran last: each
\* write covers one entry of 16 bytes at the entry's offset
WrittenBytes(op, size) ==
    UNION { cmds[i].b .. (cmds[i].b + size - 1) : i \in Positions(op) }

\* The bytes flushed by the n-th flush of the handler that ran last
FlushedBytes(n) ==
    LET f == SelectSeq(cmds, LAMBDA c : c.op = "flush")
    IN  f[n].a .. (f[n].a + f[n].b - 1)

\* C25: on every advance the entries flushed are the entries written in that
\* tick: the first flush starts at the vortex array's offset and covers
\* entries 0 .. num_vortices - 1, the second starts at the pusher array's
\* offset and covers entries 0 .. num_pushers - 1, 16 bytes per entry; the
\* bytes flushed are exactly the bytes written, and both ranges lie inside
\* the mapped block.
C25_FlushedEqualsWritten ==
    AdvanceReturned =>
        LET f == SelectSeq(cmds, LAMBDA c : c.op = "flush")
        IN  /\ Len(f) = 2
            /\ f[1].a = offsetof_vortices /\ f[1].b = 16 * viz.num_vortices
            /\ f[2].a = offsetof_pushers /\ f[2].b = 16 * viz.num_pushers
            /\ WrittenEntries("write_vortex") = 0 .. (viz.num_vortices - 1)
            /\ WrittenEntries("write_pusher") = 0 .. (viz.num_pushers - 1)
            /\ FlushedBytes(1) = WrittenBytes("write_vortex", sizeof_Vortex)
            /\ FlushedBytes(2) = WrittenBytes("write_pusher", sizeof_Pusher)
            /\ FlushedBytes(1) \subseteq 0 .. (offsetof_pushers - 1)
            /\ FlushedBytes(2) \subseteq offsetof_pushers .. (sizeof_GPU_actors - 1)
            /\ gl.mapped

C25_Witness ==
    /\ AdvanceReturned
    /\ last.repeat
    /\ FlushedBytes(1) = 0 .. 47
    /\ FlushedBytes(2) = 256 .. 287
    /\ WrittenBytes("write_pusher", sizeof_Pusher) = 256 .. 287

\* The operations of the commands of the handler that ran last, in order
CommandOps == [i \in 1..Len(cmds) |-> cmds[i].op]

LastCallOfFrame ==
    IF frame.calls = << >> THEN "none" ELSE frame.calls[Len(frame.calls)]

DrawOpsAfterClear ==
    << "use_program", "uniform2ui", "uniform2ui", "uniform2f",
       "bind_vertex_array", "draw_arrays",
       "bind_read_framebuffer", "bind_draw_framebuffer", "blit_framebuffer" >>

\* C26: the control thread issues the commands of one handler after the
\* other.  Only fieldviz_update dispatches, and its dispatch is its last
\* command; fieldviz_draw issues no dispatch, and in a frame that updates it
\* runs after the update, whose dispatch has then been issued (the tick has
\* moved on by one), while in a frozen frame no dispatch comes between the
\* last advance and the draw (the tick is the one the frame started with).
\* Inside draw the order is: bind the accumulation target, set the viewport,
\* clear if asked, draw the line vertices, then blit to the presentation
\* target; the blit is the last command and comes after the draw call.
C26_DrawAfterDispatchBlitLast ==
    /\ Positions("dispatch") # {} =>
          /\ LastCallOfFrame = "fieldviz_update"
          /\ Positions("dispatch") = {Len(cmds)}
          /\ Positions("draw_arrays") = {}
    /\ (LastCallOfFrame = "fieldviz_draw" /\ last.outcome = "returned") =>
          /\ last.op = "draw"
          /\ Positions("dispatch") = {}
          /\ frame.calls \in { << "poll_events", "fieldviz_update", "fieldviz_draw" >>,
                               << "poll_events", "fieldviz_draw" >> }
          /\ viz.current_tick = frame.tick0
                + (IF frame.calls[2] = "fieldviz_update" THEN 1 ELSE 0)
          /\ viz.current_tick = advances
          /\ CommandOps = << "bind_framebuffer", "viewport" >>
                          \o (IF last.clear THEN << "clear_color", "clear" >> ELSE << >>)
                          \o DrawOpsAfterClear
          /\ cmds[1].a = viz.accum_fbo
          /\ cmds[Len(cmds) - 2].a = viz.accum_fbo
          /\ cmds[Len(cmds) - 1].a = 0
          /\ \A d \in Positions("draw_arrays"), b \in Positions("blit_framebuffer") :
                d < b /\ b = Len(cmds)

C26_Witness ==
    /\ pc = "present"
    /\ frame.calls = << "poll_events", "fieldviz_draw" >>
    /\ advances = 1
    /\ last.op = "draw" /\ last.clear
    /\ Positions("clear") = {4}
    /\ Positions("draw_arrays") = {10}
    /\ Positions("blit_framebuffer") = {13}

sizeof_vec2 == 8

\* C27: for every grid the engine runs with, the dispatched work-group counts
\* times the work-group size (32, 32) equal the grid on both axes and the
\* invocations dispatched (the product of the two extents) are exactly
\* total_particles; the vertices drawn are 2 * total_particles, the number
\* of 2D points the particle buffer was allocated for.
C27_DispatchCoversTotalParticles ==
    LET total == get_total_particles(viz.grid_size)
    IN  /\ \A i \in Positions("dispatch") :
              /\ cmds[i].a * 32 = viz.grid_size.x
              /\ cmds[i].b * 32 = viz.grid_size.y
              /\ total % viz.grid_size.x = 0
              /\ total \div viz.grid_size.x = viz.grid_size.y
        /\ \A i \in Positions("draw_arrays") : cmds[i].b = 2 * total
        /\ \A i \in Positions("buffer_storage") :
              cmds[i].a = viz.particles_buffer => cmds[i].b = sizeof_vec2 * (2 * total)

\* ensure_least_framebuffer_size grew the surface because the y axis alone
\* (the x axis alone) was too small
GrewForYAlone == EnsureGrew /\ last.prev_size.x >= last.arg.x /\ last.prev_size.y < last.arg.y
GrewForXAlone == EnsureGrew /\ last.prev_size.y >= last.arg.y /\ last.prev_size.x < last.arg.x

\* C28 as stated: when ensure_least_framebuffer_size grows because only one
\* axis is too small, the other axis, which already covers the request on
\* that axis, keeps its size.
C28_CoveredAxisKeepsSize ==
    /\ GrewForYAlone => viz.accum_fbo_size.x = last.prev_size.x
    /\ GrewForXAlone => viz.accum_fbo_size.y = last.prev_size.y

\* The size the loop gives an axis that already covers its request: what the
\* axis had, unless that is below the smallest power of two above the
\* request, which it is then raised to (up to the ceiling)
CoveredAxisSize(prev, arg, maxv) ==
    IF prev = 0 \/ prev >= Min(SmallestPowerOfTwoAbove(arg), maxv)
    THEN prev
    ELSE Min(SmallestPowerOfTwoAbove(arg), maxv)

\* C28, amended: when ensure_least_framebuffer_size grows because only one
\* axis is too small, the other axis is run through the same rule: it keeps
\* its size if it has never been sized or if its size is at least the
\* smallest power of two strictly above the request on that axis (or the
\* ceiling); otherwise it is raised to that power of two, although it
\* already covered the request.  The new size of an axis depends on the
\* previous size and the request of that axis alone.
C28_CoveredAxisKeptOrRaised ==
    /\ GrewForYAlone =>
          /\ viz.accum_fbo_size.x = CoveredAxisSize(last.prev_size.x, last.arg.x, 3840)
          /\ viz.accum_fbo_size.x >= last.prev_size.x
    /\ GrewForXAlone =>
          /\ viz.accum_fbo_size.y = CoveredAxisSize(last.prev_size.y, last.arg.y, 2160)
          /\ viz.accum_fbo_size.y >= last.prev_size.y

\* C28 witness: the surface was 800 x 600 and 800 x 700 was requested; the
\* width covered the request and was raised to 1024 all the same
C28_Witness ==
    /\ GrewForYAlone
    /\ last.prev_size = Resolution(800, 600)
    /\ last.arg = Resolution(800, 700)
    /\ viz.accum_fbo_size = Resolution(1024, 1024)

\* The names in a sequence of deleted names, and whether none is there twice
Names(deleted) == {deleted[i] : i \in 1..Len(deleted)}
DeletedOnce(deleted) ==
    \A i \in 1..Len(deleted), j \in 1..Len(deleted) : deleted[i] = deleted[j] => i = j

\* C29: the device hands out framebuffer and renderbuffer names 1, 2, ... in
\* the order they are created.  At all times no name is deleted twice and
\* only names that were created are deleted.  While the engine is alive
\* (every call so far has returned) the handles hold the pair created last,
\* that pair is not deleted, and every earlier name has been deleted, each
\* by the growth step that replaced it; draw binds the pair's framebuffer.
\* After destruction every name created has been deleted.
C29_HandlesDeletedExactlyOnce ==
    /\ DeletedOnce(gl.fbo_deleted) /\ Names(gl.fbo_deleted) \subseteq 1..gl.fbo_gen
    /\ DeletedOnce(gl.rbo_deleted) /\ Names(gl.rbo_deleted) \subseteq 1..gl.rbo_gen
    /\ pc = "engine" =>
          /\ viz.accum_fbo = gl.fbo_gen /\ viz.accum_rbo = gl.rbo_gen
          /\ Names(gl.fbo_deleted) = 1..(gl.fbo_gen - 1)
          /\ Names(gl.rbo_deleted) = 1..(gl.rbo_gen - 1)
          /\ (EnsureGrew /\ last.prev_fbo # 0) =>
                /\ gl.fbo_deleted = Append(last.prev_gl.fbo_deleted, last.prev_fbo)
                /\ gl.rbo_deleted = Append(last.prev_gl.rbo_deleted, last.prev_rbo)
                /\ \E i \in Positions("delete_framebuffer") : cmds[i].a = last.prev_fbo
                /\ \E i \in Positions("delete_renderbuffer") : cmds[i].a = last.prev_rbo
          /\ (last.op = "ensure" /\ last.outcome = "covered") =>
                /\ gl.fbo_deleted = last.prev_gl.fbo_deleted
                /\ gl.rbo_deleted = last.prev_gl.rbo_deleted
          /\ (last.op = "draw" /\ last.outcome = "returned") =>
                cmds[1] = Cmd("bind_framebuffer", gl.fbo_gen, 0, 0)
    /\ pc = "destroyed" =>
          /\ Names(gl.fbo_deleted) = 1..gl.fbo_gen
          /\ Names(gl.rbo_deleted) = 1..gl.rbo_gen

\* C29 witness: three pairs were created, the first two were replaced, and
\* the engine was then destroyed
C29_Witness ==
    /\ pc = "destroyed"
    /\ gl.fbo_gen = 3 /\ gl.rbo_gen = 3
    /\ gl.fbo_deleted = << 1, 2, 3 >>
    /\ gl.rbo_deleted = << 1, 2, 3 >>

\* C30: each engine operation changes only its own part of the state.  A
\* draw step leaves the tick, the source counts, the grid and the
\* accumulation surface (size and handles) as they were; an advance step
\* leaves the accumulation surface and the context resolution as they were;
\* an ensure_least_framebuffer_size step leaves the tick, the source counts
\* and the grid as they were.
C30_OperationsKeepToTheirPart ==
    [][/\ last'.op = "draw" =>
             /\ viz'.current_tick = viz.current_tick
             /\ viz'.num_vortices = viz.num_vortices
             /\ viz'.num_pushers = viz.num_pushers
             /\ viz'.grid_size = viz.grid_size
             /\ viz'.accum_fbo_size = viz.accum_fbo_size
             /\ viz'.accum_fbo = viz.accum_fbo
             /\ viz'.accum_rbo = viz.accum_rbo
       /\ last'.op = "advance" =>
             /\ viz'.accum_fbo_size = viz.accum_fbo_size
             /\ viz'.accum_fbo = viz.accum_fbo
             /\ viz'.accum_rbo = viz.accum_rbo
             /\ gl'.fbo_gen = gl.fbo_gen /\ gl'.fbo_deleted = gl.fbo_deleted
             /\ gl'.rbo_gen = gl.rbo_gen /\ gl'.rbo_deleted = gl.rbo_deleted
             /\ ctx'.resolution = ctx.resolution
       /\ last'.op = "ensure" =>
             /\ viz'.current_tick = viz.current_tick
             /\ viz'.num_vortices = viz.num_vortices
             /\ viz'.num_pushers = viz.num_pushers
             /\ viz'.grid_size = viz.grid_size
      ]_vars

\* C30 witness: a draw has returned on an engine that has advanced twice and
\* whose surface has been replaced once; the surface is the one the draw
\* found
C30_Witness ==
    /\ pc = "engine"
    /\ last.op = "draw" /\ last.outcome = "returned"
    /\ viz.current_tick = 2
    /\ viz.num_vortices = 3 /\ viz.num_pushers = 2
    /\ gl.fbo_gen = 2
    /\ viz.accum_fbo = last.prev_fbo
    /\ viz.accum_fbo_size = last.prev_size

====
